---- MODULE Spec2Model ----
(***************************************************************************)
(* A model of the math layout engine of subscript-display (src/layout):    *)
(* the recursive translation of ParseNodes into a tree of layout boxes.    *)
(*                                                                         *)
(* Lengths.  The source computes with f64 lengths.  The model computes     *)
(* with exact integers: a Length<Px> is counted in sub-pixels, a           *)
(* Length<Font> and a Length<Em> in font units (an em is UnitsPerEm font   *)
(* units), and a Length<Font> that results from to_font() in 1/FontFrac    *)
(* font units until it is cast to an integer (AsFontInt).  The font data   *)
(* below is chosen so that every halving and every percent scaling that a  *)
(* reachable state performs is exact.                                      *)
(***************************************************************************)
EXTENDS Integers, Sequences, FiniteSets, TLC

VARIABLES nodes,     \* the top-level node sequence handed to layout()
          config,    \* LayoutSettings: [font_size, style] (the font is FontContext below)
          idx,       \* layout_recurse: position of the loop over `nodes`
          prev,      \* layout_recurse: atom type of the previous node (after reclassification)
          layout,    \* layout_recurse: the Layout being accumulated
          result,    \* what layout() returned: [st |-> "none" | "ok" | "err", ...]
          last,      \* what the last loop iteration did (observation only)
          name,      \* RGBA::from_name: the name it is called with
          found,     \* RGBA::from_name: what it returned: [st |-> "none" | "done", ...]
          scene      \* Renderer::render: [st |-> "idle"], or the calls it made of the
                     \* backend and the SceneWrapper they left

vars == <<nodes, config, idx, prev, layout, result, last, name, found, scene>>

Max2(a, b) == IF a >= b THEN a ELSE b
Min2(a, b) == IF a <= b THEN a ELSE b
Max3(a, b, c) == Max2(Max2(a, b), c)

\* `length * 0.5`
Half(x) == x \div 2

RECURSIVE SumSeq(_)
SumSeq(s) == IF s = <<>> THEN 0 ELSE Head(s) + SumSeq(Tail(s))

(***************************************************************************)
(* AtomType (unicode_math) and Style                                       *)
(***************************************************************************)
AtomTypes == {"Ordinal", "Alpha", "Binary", "Relation", "Open", "Close", "Fence",
              "Punctuation", "Inner", "Accent", "OperatorT", "OperatorF", "Transparent"}

\* AtomType::Operator(_): OperatorT is Operator(true), OperatorF is Operator(false)
IsOperator(t) == t \in {"OperatorT", "OperatorF"}

Styles == {"ScriptScriptCramped", "ScriptScript", "ScriptCramped", "Script",
           "TextCramped", "Text", "DisplayCramped", "Display"}

\* #[derive(PartialOrd, Ord)] on Style: the order of declaration
StyleRank(s) ==
    CASE s = "ScriptScriptCramped" -> 0
      [] s = "ScriptScript"        -> 1
      [] s = "ScriptCramped"       -> 2
      [] s = "Script"              -> 3
      [] s = "TextCramped"         -> 4
      [] s = "Text"                -> 5
      [] s = "DisplayCramped"      -> 6
      [] s = "Display"             -> 7

\* Style::cramped, had it gone down to the script size
cramped_script(s) ==
    IF s \in {"Display", "DisplayCramped", "Text", "TextCramped"} THEN "ScriptCramped"
    ELSE "ScriptScriptCramped"

StyleGt(a, b) == StyleRank(a) > StyleRank(b)
StyleGe(a, b) == StyleRank(a) >= StyleRank(b)

cramped(s) ==
    CASE s \in {"ScriptScriptCramped", "ScriptScript"} -> "ScriptScriptCramped"
      [] s \in {"ScriptCramped", "Script"}             -> "ScriptCramped"
      [] s \in {"TextCramped", "Text"}                 -> "TextCramped"
      [] s \in {"DisplayCramped", "Display"}           -> "DisplayCramped"

superscript_variant(s) ==
    CASE s \in {"Display", "Text"}                            -> "Script"
      [] s \in {"DisplayCramped", "TextCramped"}              -> "ScriptCramped"
      [] s \in {"Script", "ScriptScript"}                     -> "ScriptScript"
      [] s \in {"ScriptCramped", "ScriptScriptCramped"}       -> "ScriptScriptCramped"

subscript_variant_nocramp(s) ==
    CASE s \in {"Display", "Text"}                            -> "Script"
      [] s \in {"DisplayCramped", "TextCramped"}              -> "ScriptCramped"
      [] OTHER                                                -> "ScriptScriptCramped"

subscript_variant(s) ==
    CASE s \in {"Display", "Text", "DisplayCramped", "TextCramped"} -> "ScriptCramped"
      [] s \in {"Script", "ScriptScript", "ScriptCramped", "ScriptScriptCramped"}
                                                              -> "ScriptScriptCramped"

is_cramped(s) == s \notin {"Display", "Text", "Script", "ScriptScript"}

numerator(s) ==
    CASE s = "Display"        -> "Text"
      [] s = "DisplayCramped" -> "TextCramped"
      [] OTHER                -> superscript_variant(s)

denominator(s) ==
    CASE s \in {"Display", "DisplayCramped"} -> "TextCramped"
      [] OTHER                               -> subscript_variant(s)

(***************************************************************************)
(* Spacing table                                                           *)
(***************************************************************************)
atom_space_script_medium(left, right, style) ==
    IF left = "Alpha" /\ right = "Binary" THEN "Medium" ELSE "None"

atom_space(left, right, style) ==
    IF StyleGe(style, "TextCramped")
    THEN CASE left = "Alpha" /\ IsOperator(right)       -> "Thin"
           [] left = "Alpha" /\ right = "Binary"        -> "Medium"
           [] left = "Alpha" /\ right = "Relation"      -> "Thick"
           [] left = "Alpha" /\ right = "Inner"         -> "Thin"
           [] IsOperator(left) /\ right = "Alpha"       -> "Thin"
           [] IsOperator(left) /\ IsOperator(right)     -> "Thin"
           [] IsOperator(left) /\ right = "Relation"    -> "Thick"
           [] IsOperator(left) /\ right = "Inner"       -> "Thin"
           [] left = "Binary" /\ right = "Alpha"        -> "Medium"
           [] left = "Binary" /\ IsOperator(right)      -> "Medium"
           [] left = "Binary" /\ right = "Open"         -> "Medium"
           [] left = "Binary" /\ right = "Inner"        -> "Medium"
           [] left = "Relation" /\ right = "Alpha"      -> "Thick"
           [] left = "Relation" /\ IsOperator(right)    -> "Thick"
           [] left = "Relation" /\ right = "Open"       -> "Thick"
           [] left = "Relation" /\ right = "Inner"      -> "Thick"
           [] left = "Close" /\ IsOperator(right)       -> "Thin"
           [] left = "Close" /\ right = "Binary"        -> "Medium"
           [] left = "Close" /\ right = "Relation"      -> "Thick"
           [] left = "Close" /\ right = "Inner"         -> "Thin"
           [] left = "Inner" /\ right = "Binary"        -> "Medium"
           [] left = "Inner" /\ right = "Relation"      -> "Thick"
           [] left = "Inner" /\ right = "Close"         -> "None"
           \* (Inner, _): the arms above took Binary, Relation and Close
           [] left = "Inner" /\ right \notin {"Binary", "Relation", "Close"} -> "Thin"
           [] left = "Punctuation"                      -> "Thin"
           [] OTHER                                     -> "None"
    ELSE CASE left = "Alpha" /\ IsOperator(right)       -> "Thin"
           [] IsOperator(left) /\ right = "Alpha"       -> "Thin"
           [] IsOperator(left) /\ IsOperator(right)     -> "Thin"
           [] left = "Close" /\ IsOperator(right)       -> "Thin"
           [] left = "Inner" /\ IsOperator(right)       -> "Thin"
           [] OTHER                                     -> "None"

(***************************************************************************)
(* The font: FontContext over a font with a MATH table.  The font is data  *)
(* handed to the engine; this is a small font that has glyphs above and    *)
(* below the baseline, italics corrections, size variants and assemblies,  *)
(* a codepoint with no glyph ("?") and a glyph id with no metrics ("g").   *)
(***************************************************************************)
UnitsPerEm == 180

\* font.gid_for_codepoint, on the codepoints the font maps ("sqrt" stands for
\* U+221A); "g" maps to a glyph id the font has no metrics for
Cmap ==
    [cp \in {"a", "f", "+", "=", "(", ")", ",", "S", "I", ".", "^", "sqrt", "g"} |->
       CASE cp = "a" -> 1   [] cp = "f" -> 2   [] cp = "+" -> 3   [] cp = "=" -> 4
         [] cp = "(" -> 5   [] cp = ")" -> 6   [] cp = "," -> 7   [] cp = "S" -> 8
         [] cp = "I" -> 9   [] cp = "." -> 10  [] cp = "^" -> 11  [] cp = "sqrt" -> 12
         [] cp = "g" -> 23]

Metric(adv, h, d, it, att, x0, x1) ==
    [advance |-> adv, height |-> h, depth |-> d, italics |-> it,
     attachment |-> att, xmin |-> x0, xmax |-> x1]

\* font.glyph_metrics / font.glyph / MATH glyph_info, in font units
GlyphTable ==
    [g \in 1..22 |->
       CASE g = 1  -> Metric(80, 64, 0, 0, 0, 8, 72)          \* a
         [] g = 2  -> Metric(48, 128, -32, 16, 24, 0, 56)     \* f
         [] g = 3  -> Metric(96, 80, -16, 0, 0, 8, 88)        \* +
         [] g = 4  -> Metric(96, 72, 24, 0, 0, 8, 88)         \* = (bbox above the baseline)
         [] g = 5  -> Metric(48, 112, -32, 0, 0, 8, 40)       \* (
         [] g = 6  -> Metric(48, 112, -32, 0, 0, 8, 40)       \* )
         [] g = 7  -> Metric(32, 16, -24, 0, 0, 8, 24)        \* ,
         [] g = 8  -> Metric(128, 112, -16, 0, 0, 8, 120)     \* S: summation
         [] g = 9  -> Metric(64, 128, -32, 32, 0, 0, 80)      \* I: integral
         [] g = 10 -> Metric(32, 16, 0, 0, 0, 8, 24)          \* .
         [] g = 11 -> Metric(48, 96, 72, 0, 24, 8, 40)        \* ^ accent
         [] g = 12 -> Metric(96, 96, -16, 0, 0, 0, 96)        \* radical sign
         [] g = 13 -> Metric(64, 200, -104, 0, 0, 8, 56)      \* ( larger
         [] g = 14 -> Metric(64, 200, -104, 0, 0, 8, 56)      \* ) larger
         [] g = 15 -> Metric(176, 176, -80, 0, 0, 8, 168)     \* S display size
         [] g = 16 -> Metric(96, 216, -120, 48, 0, 0, 128)    \* I display size
         [] g = 17 -> Metric(112, 240, -16, 0, 0, 0, 112)     \* radical sign larger
         [] g = 18 -> Metric(96, 96, 72, 0, 0, 8, 88)         \* ^ wider
         [] g = 19 -> Metric(64, 96, 0, 0, 0, 0, 64)          \* assembly: bottom / left
         [] g = 20 -> Metric(64, 96, 0, 0, 0, 0, 64)          \* assembly: extender
         [] g = 21 -> Metric(64, 96, -8, 0, 0, 0, 64)         \* assembly: top / right
         [] g = 22 -> Metric(48, 64, 0, 0, 0, 0, 48)          \* unused spare
    ]

Ok(v)  == [ok |-> TRUE,  val |-> v, err |-> <<>>]
Err(e) == [ok |-> FALSE, val |-> <<>>, err |-> e]

\* `expr?`: the value of an Ok result goes on to F, an Err is returned as it is
Bind(r, F(_)) == IF r.ok THEN F(r.val) ELSE Err(r.err)

\* `let x = expr;`: x stands for the value of expr in F
Let(x, F(_)) == F(x)

MissingGlyphCodepoint(cp) == <<"MissingGlyphCodepoint", cp>>
MissingGlyphGID(gid)      == <<"MissingGlyphGID", gid>>

\* FontContext::glyph_from_gid
glyph_from_gid(ctx, gid) ==
    IF gid \in DOMAIN ctx.glyphs
    THEN Ok([gid |-> gid] @@ ctx.glyphs[gid])
    ELSE Err(MissingGlyphGID(gid))

\* FontContext::glyph
glyph(ctx, cp) ==
    IF cp \notin DOMAIN ctx.cmap
    THEN Err(MissingGlyphCodepoint(cp))
    ELSE glyph_from_gid(ctx, ctx.cmap[cp])

\* The font's MATH constants, in font units
MathConstants ==
    [subscript_shift_down |-> 40, subscript_top_max |-> 64, subscript_baseline_drop_min |-> 32,
     superscript_baseline_drop_max |-> 40, superscript_bottom_min |-> 24,
     superscript_shift_up_cramped |-> 56, superscript_shift_up |-> 72,
     sub_superscript_gap_min |-> 100,
     upper_limit_baseline_rise_min |-> 24, upper_limit_gap_min |-> 16,
     lower_limit_gap_min |-> 16, lower_limit_baseline_drop_min |-> 96,
     fraction_rule_thickness |-> 8,
     fraction_numerator_display_style_shift_up |-> 120,
     fraction_denominator_display_style_shift_down |-> 120,
     fraction_num_display_style_gap_min |-> 24, fraction_denom_display_style_gap_min |-> 24,
     fraction_numerator_shift_up |-> 72, fraction_denominator_shift_down |-> 64,
     fraction_numerator_gap_min |-> 8, fraction_denominator_gap_min |-> 8,
     axis_height |-> 48, accent_base_height |-> 80,
     delimited_sub_formula_min_height |-> 240, display_operator_min_height |-> 200,
     radical_display_style_vertical_gap |-> 24, radical_vertical_gap |-> 8,
     radical_rule_thickness |-> 8, radical_extra_ascender |-> 16,
     stack_display_style_gap_min |-> 48, stack_top_display_style_shift_up |-> 104,
     stack_top_shift_up |-> 80, stack_bottom_shift_down |-> 64, stack_gap_min |-> 24,
     script_percent_scale_down |-> 50, script_script_percent_scale_down |-> 25]

\* Constants::new with subscript_shift_down read from the font's own field
ConstantsNew_own_shift_down(math) ==
    [math EXCEPT !.subscript_shift_down = math.subscript_shift_down]

\* Constants::new: the em-unit constants of the FontContext (kept in font units;
\* delimiter_factor, delimiter_short_fall and null_delimiter_space are literals,
\* see DelimiterFactor, EmLiteral)
ConstantsNew(math) ==
    [math EXCEPT !.subscript_shift_down = math.subscript_top_max]

\* math.variants: per glyph, the size variants (gid, advance measurement) in
\* increasing size, and the parts of its assembly (none: <<>>)
VertConstructions ==
    [gid \in 1..23 |->
       CASE gid = 5  -> [variants |-> << <<5, 144>>, <<13, 304>> >>, assembly |-> <<19, 20, 21>>]
         [] gid = 6  -> [variants |-> << <<6, 144>>, <<14, 304>> >>, assembly |-> <<19, 20, 21>>]
         [] gid = 8  -> [variants |-> << <<8, 128>>, <<15, 256>> >>, assembly |-> <<>>]
         [] gid = 9  -> [variants |-> << <<9, 160>>, <<16, 336>> >>, assembly |-> <<>>]
         [] gid = 12 -> [variants |-> << <<12, 112>>, <<17, 256>> >>, assembly |-> <<19, 20, 21>>]
         [] OTHER    -> [variants |-> <<>>, assembly |-> <<>>]]

HorzConstructions ==
    [gid \in 1..23 |->
       CASE gid = 11 -> [variants |-> << <<11, 48>>, <<18, 96>> >>, assembly |-> <<19, 20, 21>>]
         [] OTHER    -> [variants |-> <<>>, assembly |-> <<>>]]

\* overlap of the connected parts of an assembly, and the length a part adds
PartOverlap == 16
PartAdvance == 80

\* the parts of an assembly that reaches `size`: first part, n extenders, last part
RECURSIVE Extenders(_, _)
Extenders(ext, n) == IF n = 0 THEN <<>> ELSE <<[gid |-> ext, overlap |-> PartOverlap]>> \o Extenders(ext, n - 1)

Assemble(parts, size) ==
    LET need == size - 2 * PartAdvance
        n    == IF need <= 0 THEN 0 ELSE (need + PartAdvance - 1) \div PartAdvance
    IN  <<[gid |-> parts[1], overlap |-> 0]>> \o Extenders(parts[2], n)
        \o <<[gid |-> parts[3], overlap |-> PartOverlap]>>

\* the first variant that is at least `size` long (0: none)
RECURSIVE FirstFitting(_, _)
FirstFitting(variants, size) ==
    IF variants = <<>> THEN 0
    ELSE IF Head(variants)[2] >= size THEN Head(variants)[1]
    ELSE FirstFitting(Tail(variants), size)

\* MathVariants::vert_variant / horz_variant
Variant(dir, construction, gid, size) ==
    IF construction.variants = <<>> /\ construction.assembly = <<>>
    THEN [kind |-> "Replacement", gid |-> gid, dir |-> dir, parts |-> <<>>]
    ELSE IF FirstFitting(construction.variants, size) # 0
    THEN [kind |-> "Replacement", gid |-> FirstFitting(construction.variants, size),
          dir |-> dir, parts |-> <<>>]
    ELSE IF construction.assembly = <<>>
    THEN [kind |-> "Replacement",
          gid |-> construction.variants[Len(construction.variants)][1],
          dir |-> dir, parts |-> <<>>]
    ELSE [kind |-> "Constructable", gid |-> 0, dir |-> dir,
          parts |-> Assemble(construction.assembly, size)]

\* resolution of a Length<Font> computed by to_font (see to_font)
FontFrac == 16

\* `(height / Font) as u32`: a to_font length cast to whole font units; the cast
\* truncates and saturates at 0
AsFontInt(l) ==
    IF l <= 0 THEN 0 ELSE l \div FontFrac

\* FontContext::vert_variant: height is a Length<Font> that came from to_font
vert_variant(ctx, cp, height) ==
    IF cp \notin DOMAIN ctx.cmap
    THEN Err(MissingGlyphCodepoint(cp))
    ELSE Ok(Variant("Vertical", ctx.vert[ctx.cmap[cp]], ctx.cmap[cp], AsFontInt(height)))

\* FontContext::horz_variant
horz_variant(ctx, cp, width) ==
    IF cp \notin DOMAIN ctx.cmap
    THEN Err(MissingGlyphCodepoint(cp))
    ELSE Ok(Variant("Horizontal", ctx.horz[ctx.cmap[cp]], ctx.cmap[cp], AsFontInt(width)))

\* FontContext::new
FontContextNew ==
    [units_per_em |-> UnitsPerEm, cmap |-> Cmap, glyphs |-> GlyphTable,
     vert |-> VertConstructions, horz |-> HorzConstructions,
     constants |-> ConstantsNew(MathConstants)]

(***************************************************************************)
(* Unit conversions (layout/convert.rs)                                    *)
(***************************************************************************)
scale_factor(cfg) ==
    CASE cfg.style \in {"Display", "DisplayCramped", "Text", "TextCramped"} -> 100
      [] cfg.style \in {"Script", "ScriptCramped"} -> cfg.ctx.constants.script_percent_scale_down
      [] cfg.style \in {"ScriptScript", "ScriptScriptCramped"}
                                          -> cfg.ctx.constants.script_script_percent_scale_down

\* `length * factor`, the factor in percent
TimesPercent(x, pct) == (x * pct) \div 100

\* scale_font_unit: length / units_per_em * font_size
scale_font_unit(l, cfg) == (l * cfg.font_size) \div cfg.ctx.units_per_em

\* to_font: length / font_size * units_per_em.  The quotient is not a whole number
\* of font units: a Length<Font> that comes from to_font is counted in
\* 1/FontFrac font units, until AsFontInt casts it to whole font units.
to_font(l, cfg) == (l * cfg.ctx.units_per_em * FontFrac) \div cfg.font_size

\* Scaled for Length<Font>
scaled_font(l, cfg) == TimesPercent(scale_font_unit(l, cfg), scale_factor(cfg))

\* Scaled for Length<Em> (an em-unit constant is kept in font units)
scaled_em(l, cfg) == TimesPercent((l * cfg.font_size) \div cfg.ctx.units_per_em, scale_factor(cfg))

\* Scaled for Length<Px>
scaled_px(l, cfg) == TimesPercent(l, scale_factor(cfg))

\* `Length::new(num / den, Em) * config.font_size`
EmLiteral(num, den, cfg) == (cfg.font_size * num) \div den

\* Scaled for Unit: u is [unit |-> "Em" | "Px", v |-> n]; an Em value counts
\* twelfths of an em, a Px value counts sub-pixels
scaled_unit(u, cfg) ==
    TimesPercent(IF u.unit = "Em" THEN EmLiteral(u.v, 12, cfg) ELSE u.v, scale_factor(cfg))

\* Spacing::to_length, times font_size
SpacingLength(sp, cfg) ==
    CASE sp = "None"   -> 0
      [] sp = "Thin"   -> EmLiteral(1, 6, cfg)
      [] sp = "Medium" -> EmLiteral(2, 9, cfg)
      [] sp = "Thick"  -> EmLiteral(1, 3, cfg)

\* `length * constants.delimiter_factor` (0.901), rounded down to a sub-pixel
TimesDelimiterFactor(x) == (x * 901) \div 1000

(***************************************************************************)
(* Layout nodes and box builders (layout/mod.rs, layout/builders.rs)       *)
(*                                                                         *)
(* A LayoutNode is a record; `kind` is its LayoutVariant.  Fields that a   *)
(* variant does not have hold their default.  `tag`, `gstyle` and `obs`    *)
(* are not in the source: `tag` names the handler that built a box (or the *)
(* role of a box in it), `gstyle` the style under which it was laid out    *)
(* and `obs` local values of the handler, so that the properties below can *)
(* speak of them.                                                          *)
(***************************************************************************)
Node(kind, w, h, d) ==
    [kind |-> kind, width |-> w, height |-> h, depth |-> d,
     contents |-> <<>>, offset |-> 0, align |-> "Default", alignw |-> 0,
     gid |-> 0, italics |-> 0, attachment |-> 0, size |-> 0,
     color |-> "", tag |-> "", gstyle |-> "", obs |-> <<>>]

\* kern!(horz: w), kern!(vert: h), rule!(width: w, height: h)
KernH(w) == Node("Kern", w, 0, 0)
KernV(h) == Node("Kern", 0, h, 0)
RuleNode(w, h) == Node("Rule", w, h, 0)

\* VBox::new
VBoxNew == [width |-> 0, height |-> 0, depth |-> 0, contents |-> <<>>, offset |-> 0]

\* VBox::add_node
VBoxAdd(vb, n) ==
    [vb EXCEPT !.width = Max2(vb.width, n.width),
               !.height = vb.height + n.height,
               !.contents = Append(vb.contents, n)]

\* VBox::insert_node(0, node)
VBoxInsert0(vb, n) ==
    [vb EXCEPT !.width = Max2(vb.width, n.width),
               !.height = vb.height + n.height,
               !.contents = <<n>> \o vb.contents]

\* VBox::set_offset
VBoxSetOffset(vb, off) == [vb EXCEPT !.offset = off]

\* VBox::build that forgets the offset in the height
VBoxBuild_no_offset(vb) ==
    [Node("VerticalBox", vb.width, vb.height,
          (IF vb.contents = <<>> THEN vb.depth
           ELSE vb.contents[Len(vb.contents)].depth) - vb.offset)
       EXCEPT !.contents = vb.contents, !.offset = vb.offset]

\* VBox::build
VBoxBuild(vb) ==
    [Node("VerticalBox", vb.width, vb.height - vb.offset,
          (IF vb.contents = <<>> THEN vb.depth
           ELSE vb.contents[Len(vb.contents)].depth) - vb.offset)
       EXCEPT !.contents = vb.contents, !.offset = vb.offset]

RECURSIVE VBoxAddAll(_, _)
VBoxAddAll(vb, ns) ==
    IF ns = <<>> THEN vb ELSE VBoxAddAll(VBoxAdd(vb, Head(ns)), Tail(ns))

\* vbox!(offset: off; n1, n2, ...) and vbox!(n1, n2, ...) (off = 0)
VBoxOf(off, ns) == VBoxBuild(VBoxSetOffset(VBoxAddAll(VBoxNew, ns), off))

\* HBox::new
HBoxNew == [width |-> 0, height |-> 0, depth |-> 0, contents |-> <<>>, offset |-> 0,
            align |-> "Default", alignw |-> 0]

\* HBox::add_node
HBoxAdd(hb, n) ==
    [hb EXCEPT !.width = hb.width + n.width,
               !.height = Max2(hb.height, n.height),
               !.depth = Min2(hb.depth, n.depth),
               !.contents = Append(hb.contents, n)]

RECURSIVE HBoxAddAll(_, _)
HBoxAddAll(hb, ns) ==
    IF ns = <<>> THEN hb ELSE HBoxAddAll(HBoxAdd(hb, Head(ns)), Tail(ns))

\* HBox::build
HBoxBuild(hb) ==
    [Node("HorizontalBox", hb.width, hb.height - hb.offset, hb.depth - hb.offset)
       EXCEPT !.contents = hb.contents, !.offset = hb.offset,
              !.align = hb.align, !.alignw = hb.alignw]

\* hbox!(n1, n2, ...)
HBoxOf(ns) == HBoxBuild(HBoxAddAll(HBoxNew, ns))

\* hbox!(align: Alignment::Centered(aw); width: w; n1, n2, ...):
\* add the nodes, set_alignment, set_width, build
HBoxCenteredOf(aw, w, ns) ==
    HBoxBuild([HBoxAddAll(HBoxNew, ns) EXCEPT !.align = "Centered", !.alignw = aw,
                                              !.width = w])

\* Layout::new
LayoutNew ==
    [contents |-> <<>>, width |-> 0, height |-> 0, depth |-> 0, offset |-> 0,
     align |-> "Default", alignw |-> 0, gstyle |-> "", tag |-> ""]

\* Layout::add_node that forgets to widen the layout
add_node_no_width(l, n) ==
    [l EXCEPT !.height = Max2(l.height, n.height),
              !.depth = Min2(l.depth, n.depth),
              !.contents = Append(l.contents, n)]

\* Layout::add_node, had it taken the height and the depth of the node it adds
add_node_last(l, n) ==
    [l EXCEPT !.width = l.width + n.width,
              !.height = n.height,
              !.depth = n.depth,
              !.contents = Append(l.contents, n)]

\* Layout::add_node
add_node(l, n) ==
    [l EXCEPT !.width = l.width + n.width,
              !.height = Max2(l.height, n.height),
              !.depth = Min2(l.depth, n.depth),
              !.contents = Append(l.contents, n)]

RECURSIVE add_nodes(_, _)
add_nodes(l, ns) == IF ns = <<>> THEN l ELSE add_nodes(add_node(l, Head(ns)), Tail(ns))

\* Layout::finalize
finalize(l) == [l EXCEPT !.depth = l.depth - l.offset, !.height = l.height - l.offset]

\* Layout::as_node, had it returned the only node of a layout as it is
as_node_bare(l) ==
    IF Len(l.contents) = 1 THEN l.contents[1]
    ELSE [Node("HorizontalBox", l.width, l.height, l.depth)
            EXCEPT !.contents = l.contents, !.offset = l.offset,
                   !.align = l.align, !.alignw = l.alignw, !.gstyle = l.gstyle,
                   !.tag = l.tag]

\* Layout::as_node
as_node(l) ==
    [Node("HorizontalBox", l.width, l.height, l.depth)
       EXCEPT !.contents = l.contents, !.offset = l.offset,
              !.align = l.align, !.alignw = l.alignw, !.gstyle = l.gstyle,
              !.tag = l.tag]

\* Layout::centered, had it kept the width of the layout
LayoutCentered_narrow(l, new_width) ==
    [l EXCEPT !.align = "Centered", !.alignw = l.width]

\* Layout::centered
LayoutCentered(l, new_width) ==
    [l EXCEPT !.align = "Centered", !.alignw = l.width, !.width = new_width]

\* the widening of a Layout, had it left the alignment as it was
Widen_unaligned(l, w) == [l EXCEPT !.width = w]

\* `x.alignment = Alignment::Centered(x.width); x.width = w` on a Layout
Widen(l, w) == [l EXCEPT !.align = "Centered", !.alignw = l.width, !.width = w]

\* is_symbol (layout/mod.rs): the glyph of a one-element contents, looking through boxes
RECURSIVE is_symbol(_)
is_symbol(contents) ==
    IF Len(contents) # 1 THEN [some |-> FALSE, gly |-> Node("Kern", 0, 0, 0)]
    ELSE LET n == contents[1]
         IN  CASE n.kind = "Glyph" -> [some |-> TRUE, gly |-> n]
               [] n.kind \in {"HorizontalBox", "VerticalBox", "Color"} -> is_symbol(n.contents)
               [] OTHER -> [some |-> FALSE, gly |-> Node("Kern", 0, 0, 0)]

\* LayoutNode::centered that moves the box without adjusting its height
NodeCentered_keep_height(n, axis) ==
    LET shift == Half(n.height + n.depth) - axis
    IN  CASE n.kind = "VerticalBox" -> [n EXCEPT !.offset = shift, !.depth = n.depth - shift]
          [] n.kind = "Glyph"       -> VBoxOf(shift, <<n>>)
          [] OTHER                  -> n

\* LayoutNode::centered, had it centred the node on the baseline
NodeCentered_baseline(n, axis) ==
    LET shift == Half(n.height + n.depth)
    IN  CASE n.kind = "VerticalBox" ->
               [n EXCEPT !.offset = shift, !.height = n.height - shift,
                         !.depth = n.depth - shift]
          [] n.kind = "Glyph"       -> VBoxOf(shift, <<n>>)
          [] OTHER                  -> n

\* LayoutNode::centered
NodeCentered(n, axis) ==
    LET shift == Half(n.height + n.depth) - axis
    IN  CASE n.kind = "VerticalBox" ->
               [n EXCEPT !.offset = shift, !.height = n.height - shift,
                         !.depth = n.depth - shift]
          [] n.kind = "Glyph"       -> VBoxOf(shift, <<n>>)
          [] OTHER                  -> n

(***************************************************************************)
(* AsLayoutNode (layout/convert.rs)                                        *)
(***************************************************************************)
\* Glyph::as_layout
GlyphAsLayout(g, cfg) ==
    [Node("Glyph", scaled_font(g.advance, cfg), scaled_font(g.height, cfg),
          scaled_font(g.depth, cfg))
       EXCEPT !.gid = g.gid, !.size = scaled_em(cfg.ctx.units_per_em, cfg),
              !.attachment = scaled_font(g.attachment, cfg),
              !.italics = scaled_font(g.italics, cfg)]

\* Rule::as_layout
RuleAsLayout(r, cfg) == RuleNode(scaled_unit(r.width, cfg), scaled_unit(r.height, cfg))

\* VariantGlyph::Constructable(Vertical, parts): the loop over the parts
RECURSIVE VertParts(_, _, _)
VertParts(vb, parts, cfg) ==
    IF parts = <<>> THEN Ok(vb)
    ELSE Let(Head(parts), LAMBDA instr :
         Bind(glyph_from_gid(cfg.ctx, instr.gid), LAMBDA g :
         Let(VBoxInsert0(vb, GlyphAsLayout(g, cfg)), LAMBDA vb1 :
         VertParts(IF instr.overlap # 0
                   THEN VBoxAdd(vb1, KernV(-scaled_font(instr.overlap + g.depth, cfg)))
                   ELSE vb1,
                   Tail(parts), cfg))))

\* VariantGlyph::Constructable(Horizontal, parts): the loop over the parts
RECURSIVE HorzParts(_, _, _)
HorzParts(hb, parts, cfg) ==
    IF parts = <<>> THEN Ok(hb)
    ELSE Let(Head(parts), LAMBDA instr :
         Bind(glyph_from_gid(cfg.ctx, instr.gid), LAMBDA g :
         HorzParts(HBoxAdd(IF instr.overlap # 0
                           THEN HBoxAdd(hb, KernH(-scaled_font(instr.overlap, cfg)))
                           ELSE hb,
                           GlyphAsLayout(g, cfg)),
                   Tail(parts), cfg)))

\* VariantGlyph::as_layout
VariantAsLayout(v, cfg) ==
    IF v.kind = "Replacement"
    THEN Bind(glyph_from_gid(cfg.ctx, v.gid), LAMBDA g : Ok(GlyphAsLayout(g, cfg)))
    ELSE IF v.dir = "Vertical"
    THEN Bind(VertParts(VBoxNew, v.parts, cfg), LAMBDA vb : Ok(VBoxBuild(vb)))
    ELSE Bind(HorzParts(HBoxNew, v.parts, cfg), LAMBDA hb : Ok(HBoxBuild(hb)))

(***************************************************************************)
(* ParseNode (ast/nodes.rs).  An Option is a sequence of length 0 or 1.    *)
(***************************************************************************)
None == <<>>
Some(x) == <<x>>

Symbol(cp, at)        == [kind |-> "Symbol", codepoint |-> cp, atom_type |-> at]
Delimited(l, r, xs)   == [kind |-> "Delimited", left |-> l, right |-> r, inner |-> xs]
Radical(xs)           == [kind |-> "Radical", inner |-> xs]
GenFraction(n, d, bar, l, r, sty) ==
    [kind |-> "GenFraction", numerator |-> n, denominator |-> d, bar_thickness |-> bar,
     left_delimiter |-> l, right_delimiter |-> r, style |-> sty]
Scripts(b, sup, sub)  == [kind |-> "Scripts", base |-> b, superscript |-> sup, subscript |-> sub]
Rule(w, h)            == [kind |-> "Rule", width |-> w, height |-> h]
Kerning(u)            == [kind |-> "Kerning", unit |-> u]
Accent(sym, xs)       == [kind |-> "Accent", symbol |-> sym, nucleus |-> xs]
StyleNode(sty)        == [kind |-> "Style", style |-> sty]
AtomChange(at, xs)    == [kind |-> "AtomChange", at |-> at, inner |-> xs]
Color(c, xs)          == [kind |-> "Color", color |-> c, inner |-> xs]
Group(xs)             == [kind |-> "Group", inner |-> xs]
Stack(at, lines)      == [kind |-> "Stack", atom_type |-> at, lines |-> lines]
Extend(cp, u)         == [kind |-> "Extend", codepoint |-> cp, unit |-> u]
Array(rows, l, r)     == [kind |-> "Array", rows |-> rows, left_delimiter |-> l,
                          right_delimiter |-> r]

\* Unit::Em (in twelfths of an em) and Unit::Px (in sub-pixels)
Em(v) == [unit |-> "Em", v |-> v]
Px(v) == [unit |-> "Px", v |-> v]

\* ParseNode::atom_type
RECURSIVE atom_type(_)
atom_type(node) ==
    CASE node.kind = "Symbol"      -> node.atom_type
      [] node.kind = "Delimited"   -> "Inner"
      [] node.kind = "Radical"     -> "Alpha"
      [] node.kind = "GenFraction" -> "Inner"
      [] node.kind = "Group"       -> "Alpha"
      [] node.kind = "Scripts"     ->
           IF node.base = None THEN "Alpha" ELSE atom_type(node.base[1])
      [] node.kind = "Rule"        -> "Alpha"
      [] node.kind = "Kerning"     -> "Transparent"
      [] node.kind = "Accent"      ->
           IF node.nucleus = <<>> THEN "Alpha" ELSE atom_type(node.nucleus[1])
      [] node.kind = "Style"       -> "Transparent"
      [] node.kind = "AtomChange"  -> node.at
      [] node.kind = "Color"       ->
           IF node.inner = <<>> THEN "Alpha" ELSE atom_type(node.inner[1])
      [] node.kind = "Extend"      -> "Inner"
      [] node.kind = "Array"       -> "Inner"
      [] node.kind = "Stack"       -> node.atom_type

\* ParseNode::is_symbol and ast::is_symbol: Some(symbol) or None
RECURSIVE ast_is_symbol(_)
ast_is_symbol(contents) ==
    IF Len(contents) # 1 THEN None
    ELSE LET n == contents[1]
         IN  CASE n.kind = "Symbol"     -> Some(n)
               [] n.kind = "Scripts"    -> IF n.base = None THEN None ELSE ast_is_symbol(n.base)
               [] n.kind = "Accent"     -> ast_is_symbol(n.nucleus)
               [] n.kind = "AtomChange" -> ast_is_symbol(n.inner)
               [] n.kind = "Color"      -> ast_is_symbol(n.inner)
               [] OTHER                 -> None

(***************************************************************************)
(* Script kerning (font/kerning.rs)                                        *)
(***************************************************************************)
\* MathKern::kern_for_height on the kern_info records of the font: only the
\* glyph f has a record; its top right corner is cut in above the x-height and
\* its bottom right corner below the baseline.  0 when there is no record.
KernForHeight(gid, corner, h) ==
    IF gid # 2 THEN 0
    ELSE CASE corner = "TopRight"    -> IF h > 64 THEN -8 ELSE 0
           [] corner = "BottomRight" -> IF h < 0 THEN -8 ELSE 0
           [] OTHER                  -> 0

\* `(height / Font) as i16`: truncation towards zero of a length in 1/FontFrac font units
AsI16(h) == IF h >= 0 THEN h \div FontFrac ELSE -((-h) \div FontFrac)

\* kern_from, in font units
kern_from(g, height, side) == KernForHeight(g.gid, side, AsI16(height))

\* superscript_kern: shift is a to_font length
superscript_kern(base, script, shift) ==
    LET base_height  == base.height * FontFrac
        script_depth == script.depth * FontFrac + shift
        value1 == kern_from(base, base_height, "TopRight")
                  + kern_from(script, base_height, "BottomLeft")
        value2 == kern_from(base, script_depth, "TopRight")
                  + kern_from(script, script_depth, "BottomLeft")
    IN  Max2(value1, value2)

\* subscript_kern
subscript_kern(base, script, shift) ==
    LET base_depth    == base.depth * FontFrac
        script_height == script.height * FontFrac - shift
        value1 == kern_from(base, base_depth, "BottomRight")
                  + kern_from(script, base_depth, "TopLeft")
        value2 == kern_from(base, script_height, "BottomRight")
                  + kern_from(script, script_height, "TopLeft")
    IN  Min2(value1, value2)

(***************************************************************************)
(* The layout engine (layout/engine.rs).  A handler returns Ok(nodes), the *)
(* nodes it adds to the Layout it is called on, or Err(e): every handler   *)
(* finishes its fallible calls before its first add_node.                  *)
(***************************************************************************)
\* `constant * config.font_size`: an em-unit constant in px, not scaled by the style
EmPx(l, cfg) == (l * cfg.font_size) \div cfg.ctx.units_per_em

\* cfg.ctx.constants.null_delimiter_space (0.1 em) * config.font_size
null_delimiter_space(cfg) == EmLiteral(1, 10, cfg)

\* cfg.ctx.constants.delimiter_short_fall (0.1 em) * config.font_size
delimiter_short_fall(cfg) == EmLiteral(1, 10, cfg)

RECURSIVE layout_recurse(_, _, _)
RECURSIVE dispatch(_, _, _)

\* layout: the entry point
layout_(nodes_, cfg) == layout_recurse(nodes_, cfg, "Transparent")

\* Layout::largeop
largeop(sym, cfg) ==
    Bind(glyph(cfg.ctx, sym.codepoint), LAMBDA g :
    IF StyleGt(cfg.style, "Text")
    THEN Bind(vert_variant(cfg.ctx, sym.codepoint,
                           cfg.ctx.constants.display_operator_min_height * FontFrac), LAMBDA v :
         Bind(VariantAsLayout(v, cfg), LAMBDA n :
         Ok(<<[VBoxOf(Half(n.height + n.depth)
                        - scaled_em(cfg.ctx.constants.axis_height, cfg), <<n>>)
                 EXCEPT !.tag = "largeop", !.gstyle = cfg.style,
                        !.obs = [axis |-> scaled_em(cfg.ctx.constants.axis_height, cfg),
                                 kind |-> n.kind, height |-> n.height,
                                 depth |-> n.depth]]>>)))
    ELSE Ok(<<GlyphAsLayout(g, cfg)>>))

\* Layout::symbol
symbol(sym, cfg) ==
    IF IsOperator(sym.atom_type) THEN largeop(sym, cfg)
    ELSE Bind(glyph(cfg.ctx, sym.codepoint), LAMBDA g : Ok(<<GlyphAsLayout(g, cfg)>>))

\* accent: `let base_offset = match layout::is_symbol(&base.contents)`
AccentBaseOffset(base, sym, bg, cfg) ==
    IF sym.some
    THEN IF bg.attachment # 0
         THEN scaled_font(bg.attachment, cfg)
         ELSE scaled_font(Half(bg.advance + bg.italics), cfg)
    ELSE Half(base.width)

\* accent: `let acc_offset = match accent_variant`
AccentOffset(accent_variant, accent_, ag, cfg) ==
    IF accent_variant.kind = "Replacement"
    THEN IF ag.attachment # 0
         THEN scaled_font(ag.attachment, cfg)
         ELSE scaled_font(Half(ag.xmax + ag.xmin), cfg)
    ELSE Half(accent_.width)

\* Layout::accent
accent(acc, cfg) ==
    Bind(layout_(acc.nucleus, [cfg EXCEPT !.style = cramped(cfg.style)]), LAMBDA base :
    Bind(horz_variant(cfg.ctx, acc.symbol.codepoint, to_font(base.width, cfg)),
         LAMBDA accent_variant :
    Bind(VariantAsLayout(accent_variant, cfg), LAMBDA accent_ :
    Let(is_symbol(base.contents), LAMBDA sym :
    Bind(IF sym.some THEN glyph_from_gid(cfg.ctx, sym.gly.gid) ELSE Ok(<<>>), LAMBDA bg :
    Bind(IF accent_variant.kind = "Replacement"
         THEN glyph_from_gid(cfg.ctx, accent_variant.gid) ELSE Ok(<<>>), LAMBDA ag :
    Ok(<<[VBoxOf(0, <<HBoxOf(<<KernH(AccentBaseOffset(base, sym, bg, cfg)
                                     - AccentOffset(accent_variant, accent_, ag, cfg)),
                               accent_>>),
                      KernV(-Min2(base.height,
                                  scaled_em(cfg.ctx.constants.accent_base_height, cfg))),
                      as_node(base)>>)
            EXCEPT !.tag = "accent"]>>)))))))

\* `config.ctx.vert_variant(cp, clearance)?.as_layout(config)?.centered(axis)`;
\* `obs` records the codepoint and the size that were asked of vert_variant
ExtendedDelimiter(cp, clearance, axis, cfg) ==
    Bind(vert_variant(cfg.ctx, cp, clearance), LAMBDA v :
    Bind(VariantAsLayout(v, cfg), LAMBDA n :
    Ok([NodeCentered(n, axis) EXCEPT !.tag = "delimiter",
                                     !.obs = [clearance |-> clearance, axis |-> axis,
                                              kind |-> n.kind, height |-> n.height,
                                              depth |-> n.depth, cp |-> cp]])))

\* delimited: one side when the inner formula is tall enough to extend
DelimitedExtended(sym, clearance, axis, cfg) ==
    IF sym.codepoint = "." THEN Ok(KernH(null_delimiter_space(cfg)))
    ELSE ExtendedDelimiter(sym.codepoint, clearance, axis, cfg)

\* delimited: one side otherwise
DelimitedPlain(sym, cfg) ==
    IF sym.codepoint = "." THEN Ok(KernH(null_delimiter_space(cfg)))
    ELSE Bind(glyph(cfg.ctx, sym.codepoint), LAMBDA g : Ok(GlyphAsLayout(g, cfg)))

\* the clearance that delimited asks of vert_variant, in px
DelimitedClearance(h, d, axis, cfg) ==
    Max2(TimesDelimiterFactor(Max2(h - axis, axis - d) * 2),
         h - d - delimiter_short_fall(cfg))

\* delimited: `if max(inner.height, -inner.depth) > min_height / 2.0 { .. } else { .. }`
DelimitedSide(sym, inner, cfg) ==
    IF Max2(inner.height, -inner.depth)
       > Half(EmPx(cfg.ctx.constants.delimited_sub_formula_min_height, cfg))
    THEN DelimitedExtended(sym,
             to_font(DelimitedClearance(inner.height, inner.depth,
                                        EmPx(cfg.ctx.constants.axis_height, cfg), cfg), cfg),
             EmPx(cfg.ctx.constants.axis_height, cfg), cfg)
    ELSE DelimitedPlain(sym, cfg)

\* Layout::delimited
delimited(delim, cfg) ==
    Bind(layout_(delim.inner, cfg), LAMBDA l :
    Let(as_node(l), LAMBDA inner :
    Bind(DelimitedSide(delim.left, inner, cfg), LAMBDA left :
    Bind(DelimitedSide(delim.right, inner, cfg), LAMBDA right :
    Ok(<<left, inner, right>>)))))

\* layout_node: `let _ = layout.dispatch(config, parse_node, AtomType::Transparent)`
layout_node(node, cfg) ==
    Let(dispatch(cfg, node, "Transparent"), LAMBDA r :
    Let([LayoutNew EXCEPT !.gstyle = cfg.style], LAMBDA l :
    finalize(IF r.ok THEN add_nodes(l, r.val) ELSE l)))

\* Layout::operator_limits.  `obs` records the quantities the box was built from.
operator_limits(base, sup, sub, cfg) ==
    Let(is_symbol(base.contents), LAMBDA sym :
    Let(IF sym.some THEN sym.gly.italics ELSE 0, LAMBDA delta :
    Let(Max2(scaled_em(cfg.ctx.constants.upper_limit_baseline_rise_min, cfg),
             scaled_em(cfg.ctx.constants.upper_limit_gap_min, cfg) - sup.depth),
        LAMBDA sup_kern :
    Let(Max2(scaled_em(cfg.ctx.constants.lower_limit_gap_min, cfg),
             scaled_em(cfg.ctx.constants.lower_limit_baseline_drop_min, cfg) - sub.height)
        - base.depth, LAMBDA sub_kern :
    Let(Max3(base.width, sub.width + Half(delta), sup.width + Half(delta)), LAMBDA width :
    <<[VBoxOf(sub.height + sub_kern,
         <<HBoxCenteredOf(sup.width, width, <<KernH(Half(delta)), as_node(sup)>>),
           KernV(sup_kern),
           as_node(LayoutCentered(base, width)),
           KernV(sub_kern),
           HBoxCenteredOf(sub.width, width, <<KernH(-Half(delta)), as_node(sub)>>)>>)
        EXCEPT !.tag = "limits", !.gstyle = cfg.style,
               !.obs = [delta |-> delta, sup_kern |-> sup_kern, sub_kern |-> sub_kern,
                        width |-> width, base_width |-> base.width,
                        sup_width |-> sup.width, sub_width |-> sub.width,
                        sup_height |-> sup.height, sub_height |-> sub.height,
                        base_height |-> base.height]]>>)))))

\* scripts: `sup.contents.insert(0, kern!(horz: k)); sup.width += k` when k is not zero
InsertKern(l, k) ==
    IF k = 0 THEN l
    ELSE [l EXCEPT !.contents = <<KernH(k)>> \o l.contents, !.width = l.width + k]

\* scripts: the gap fix, had the shifts been left as they were
GapFix_none(adjust_up, adjust_down, sup, sub, cfg) == <<adjust_up, adjust_down>>

\* scripts: the gap fix.  Returns the final <<adjust_up, adjust_down>>
GapFix(adjust_up, adjust_down, sup, sub, cfg) ==
    LET sup_bot == adjust_up + sup.depth
        sub_top == sub.height - adjust_down
        gap_min == scaled_em(cfg.ctx.constants.sub_superscript_gap_min, cfg)
        adjust  == Half(gap_min - sup_bot + sub_top)
    IN  IF sup_bot - sub_top < gap_min
        THEN <<adjust_up + adjust, adjust_down + adjust>>
        ELSE <<adjust_up, adjust_down>>

\* scripts: the base height and the kern of a superscript.  Ok(<<height, sup_kern>>)
ScriptsHeightKern(scr, base, sup, up0, cfg) ==
    IF scr.base = None \/ atom_type(scr.base[1]) = "OperatorF"
    THEN Ok(<<base.height, 0>>)
    ELSE IF scr.base[1].kind = "Accent"
    THEN Let(ast_is_symbol(scr.base[1].nucleus), LAMBDA sym :
         IF sym = None THEN Ok(<<base.height, 0>>)
         ELSE Bind(glyph(cfg.ctx, sym[1].codepoint), LAMBDA g :
              Ok(<<scaled_font(g.height, cfg), 0>>)))
    ELSE Let(is_symbol(base.contents), LAMBDA base_sym :
         IF ~base_sym.some THEN Ok(<<base.height, 0>>)
         ELSE Let(is_symbol(sup.contents), LAMBDA sup_sym :
              IF ~sup_sym.some THEN Ok(<<base.height, base_sym.gly.italics>>)
              ELSE Bind(glyph_from_gid(cfg.ctx, base_sym.gly.gid), LAMBDA bg :
                   Bind(glyph_from_gid(cfg.ctx, sup_sym.gly.gid), LAMBDA sg :
                   Ok(<<base.height,
                        base_sym.gly.italics
                        + scaled_font(superscript_kern(bg, sg, to_font(up0, cfg)), cfg)>>)))))

\* scripts: `if scripts.superscript.is_some() { .. }`.  Ok(<<adjust_up, sup_kern>>)
ScriptsUp(scr, base, sup, cfg) ==
    IF scr.superscript = None THEN Ok(<<0, 0>>)
    ELSE Let(scaled_em(IF is_cramped(cfg.style)
                       THEN cfg.ctx.constants.superscript_shift_up_cramped
                       ELSE cfg.ctx.constants.superscript_shift_up, cfg), LAMBDA up0 :
         Bind(ScriptsHeightKern(scr, base, sup, up0, cfg), LAMBDA hk :
         Ok(<<Max3(up0,
                   hk[1] - scaled_em(cfg.ctx.constants.superscript_baseline_drop_max, cfg),
                   scaled_em(cfg.ctx.constants.superscript_bottom_min, cfg) - sup.depth),
              hk[2]>>)))

\* scripts: the kern of a subscript
ScriptsSubKern(scr, base, sub, down1, cfg) ==
    IF scr.base = None THEN Ok(0)
    ELSE Let(is_symbol(base.contents), LAMBDA base_sym :
         Bind(IF base_sym.some /\ atom_type(scr.base[1]) = "OperatorF"
              THEN Bind(glyph_from_gid(cfg.ctx, base_sym.gly.gid), LAMBDA bg :
                        Ok(-scaled_font(bg.italics, cfg)))
              ELSE Ok(0), LAMBDA k0 :
         Let(is_symbol(sub.contents), LAMBDA sub_sym :
         IF sub_sym.some /\ base_sym.some
         THEN Bind(glyph_from_gid(cfg.ctx, base_sym.gly.gid), LAMBDA bg :
              Bind(glyph_from_gid(cfg.ctx, sub_sym.gly.gid), LAMBDA sg :
              Ok(k0 + scaled_font(subscript_kern(bg, sg, to_font(down1, cfg)), cfg))))
         ELSE Ok(k0))))

\* scripts: `if scripts.subscript.is_some() { .. }`.  Ok(<<adjust_down, sub_kern>>)
ScriptsDown(scr, base, sub, cfg) ==
    IF scr.subscript = None THEN Ok(<<0, 0>>)
    ELSE Let(Max3(scaled_em(cfg.ctx.constants.subscript_shift_down, cfg),
                  sub.height - scaled_em(cfg.ctx.constants.subscript_top_max, cfg),
                  scaled_em(cfg.ctx.constants.subscript_baseline_drop_min, cfg) - base.depth),
             LAMBDA down1 :
         Bind(ScriptsSubKern(scr, base, sub, down1, cfg), LAMBDA k : Ok(<<down1, k>>)))

\* scripts: `let mut contents = builders::VBox::new(); ..`, before `contents.build()`
ScriptsContents(scr, sup, sub, adjust_up, adjust_down, sup_kern, sub_kern) ==
    Let(IF scr.superscript # None
        THEN VBoxAdd(VBoxAdd(VBoxNew, as_node(InsertKern(sup, sup_kern))),
                     KernV(adjust_up - sub.height + adjust_down))
        ELSE VBoxNew, LAMBDA c1 :
    Let(VBoxSetOffset(c1, adjust_down), LAMBDA c2 :
    IF scr.subscript # None
    THEN VBoxAdd(c2, as_node(InsertKern(sub, sub_kern)))
    ELSE c2))

\* scripts: the part after the operator-with-limits case.  `obs` records the shifts
\* before the gap fix.
SideScripts(scr, base, sup, sub, cfg) ==
    Bind(ScriptsUp(scr, base, sup, cfg), LAMBDA up :
    Bind(ScriptsDown(scr, base, sub, cfg), LAMBDA down :
    Let(IF scr.subscript # None /\ scr.superscript # None
        THEN GapFix(up[1], down[1], sup, sub, cfg)
        ELSE <<up[1], down[1]>>, LAMBDA fixed :
    Ok(<<as_node(base),
         [VBoxBuild(ScriptsContents(scr, sup, sub, fixed[1], fixed[2], up[2], down[2]))
            EXCEPT !.tag = "scripts", !.gstyle = cfg.style,
                   !.obs = [up1 |-> up[1], down1 |-> down[1],
                            has_sup |-> scr.superscript # None,
                            has_sub |-> scr.subscript # None]]>>))))

\* observation: the Layout of a script that is present is marked with its role
Role(opt, l, role) == IF opt = None THEN l ELSE [l EXCEPT !.tag = role]

\* Layout::scripts
scripts(scr, cfg) ==
    Let(IF scr.base = None THEN LayoutNew ELSE layout_node(scr.base[1], cfg), LAMBDA base :
    Bind(IF scr.superscript = None THEN Ok(LayoutNew)
         ELSE layout_(scr.superscript[1],
                      [cfg EXCEPT !.style = superscript_variant(cfg.style)]), LAMBDA sup0 :
    Bind(IF scr.subscript = None THEN Ok(LayoutNew)
         ELSE layout_(scr.subscript[1],
                      [cfg EXCEPT !.style = subscript_variant(cfg.style)]), LAMBDA sub0 :
    Let(Role(scr.superscript, sup0, "sup"), LAMBDA sup :
    Let(Role(scr.subscript, sub0, "sub"), LAMBDA sub :
    IF scr.base # None /\ atom_type(scr.base[1]) = "OperatorT"
    THEN Ok(operator_limits(base, sup, sub, cfg))
    ELSE SideScripts(scr, base, sup, sub, cfg))))))

\* frac: a delimiter that is present
FracDelimiter(sym, inner, cfg) ==
    LET axis_height == EmPx(cfg.ctx.constants.axis_height, cfg)
        clearance == Max2(Max2(inner.height - axis_height, axis_height - inner.depth) * 2,
                          EmPx(cfg.ctx.constants.delimited_sub_formula_min_height, cfg))
    IN  ExtendedDelimiter(sym.codepoint, to_font(clearance, cfg),
                          scaled_px(axis_height, cfg), cfg)

\* frac: `match frac.left_delimiter`, had it treated the '.' symbol as no delimiter
FracSide_null_dot(opt, inner, cfg) ==
    IF opt = None \/ (opt # None /\ opt[1].codepoint = ".")
    THEN Ok(KernH(null_delimiter_space(cfg)))
    ELSE FracDelimiter(opt[1], inner, cfg)

\* frac: `match frac.left_delimiter` / `match frac.right_delimiter`
FracSide(opt, inner, cfg) ==
    IF opt = None THEN Ok(KernH(null_delimiter_space(cfg)))
    ELSE FracDelimiter(opt[1], inner, cfg)

\* frac: the vbox of numerator, rule and denominator.  `obs` records the
\* quantities the box was built from.
FracInner(numer, denom, bar, axis, display, shift_up, shift_down, gap_num, gap_denom, cfg) ==
    Let(Max2(shift_up - axis - Half(bar), gap_num - numer.depth), LAMBDA kern_num :
    Let(Max2(shift_down + axis - denom.height - Half(bar), gap_denom), LAMBDA kern_den :
    [VBoxOf(denom.height + kern_den + Half(bar) - axis,
            <<numer, KernV(kern_num), RuleNode(numer.width, bar), KernV(kern_den), denom>>)
       EXCEPT !.tag = "frac", !.gstyle = cfg.style,
              !.obs = [bar |-> bar, axis |-> axis, display |-> display,
                       kern_num |-> kern_num, kern_den |-> kern_den]]))

\* frac: `if config.style > Style::Text { .. } else { .. }` and the inner vbox
FracStacked(numer, denom, bar, axis, display, cfg) ==
    FracInner(numer, denom, bar, axis, display,
        scaled_em(IF display
                  THEN cfg.ctx.constants.fraction_numerator_display_style_shift_up
                  ELSE cfg.ctx.constants.fraction_numerator_shift_up, cfg),
        scaled_em(IF display
                  THEN cfg.ctx.constants.fraction_denominator_display_style_shift_down
                  ELSE cfg.ctx.constants.fraction_denominator_shift_down, cfg),
        scaled_em(IF display
                  THEN cfg.ctx.constants.fraction_num_display_style_gap_min
                  ELSE cfg.ctx.constants.fraction_numerator_gap_min, cfg),
        scaled_em(IF display
                  THEN cfg.ctx.constants.fraction_denom_display_style_gap_min
                  ELSE cfg.ctx.constants.fraction_denominator_gap_min, cfg),
        cfg)

\* frac: `let config = match frac.style`
FracConfig(f, cfg0) ==
    CASE f.style = "NoChange" -> cfg0
      [] f.style = "Display"  -> [cfg0 EXCEPT !.style = "Display"]
      [] f.style = "Text"     -> [cfg0 EXCEPT !.style = "Text"]

\* frac: `let bar = match frac.bar_thickness`
FracBar(f, cfg) ==
    CASE f.bar_thickness.kind = "Default" ->
             scaled_em(cfg.ctx.constants.fraction_rule_thickness, cfg)
      [] f.bar_thickness.kind = "None" -> 0
      [] f.bar_thickness.kind = "Unit" -> scaled_unit(f.bar_thickness.u, cfg)

\* Layout::frac
frac(f, cfg0) ==
    Let(FracConfig(f, cfg0), LAMBDA cfg :
    Let(FracBar(f, cfg), LAMBDA bar :
    Bind(layout_(f.numerator, [cfg EXCEPT !.style = numerator(cfg.style)]), LAMBDA n :
    Bind(layout_(f.denominator, [cfg EXCEPT !.style = denominator(cfg.style)]), LAMBDA d :
    Let([as_node(IF n.width > d.width THEN n ELSE Widen(n, d.width)) EXCEPT !.tag = "numer"],
        LAMBDA numer :
    Let([as_node(IF n.width > d.width THEN Widen(d, n.width) ELSE d) EXCEPT !.tag = "denom"],
        LAMBDA denom :
    Let(FracStacked(numer, denom, bar, scaled_em(cfg.ctx.constants.axis_height, cfg),
                    StyleGt(cfg.style, "Text"), cfg), LAMBDA inner :
    Bind(FracSide(f.left_delimiter, inner, cfg), LAMBDA left :
    Bind(FracSide(f.right_delimiter, inner, cfg), LAMBDA right :
    Ok(<<left, inner, right>>))))))))))

\* radical: `config.style >= Style::Display`, had it let the cramped style tie
RadicalIsDisplay_tie(style) == StyleGt(style, "Text")

\* radical: `config.style >= Style::Display`
RadicalIsDisplay(style) == StyleGe(style, "Display")

\* radical: the offset of the radical sign, had it left the gap out
RadicalOffset_no_gap(sqrt, rule_thickness, gap, contents) ==
    sqrt.height - (rule_thickness + contents.height)

\* radical: `let offset = rule_thickness + gap + contents.height;
\* let offset = sqrt.height - offset`
RadicalOffset(sqrt, rule_thickness, gap, contents) ==
    sqrt.height - (rule_thickness + gap + contents.height)

\* Layout::radical
radical(rad, cfg) ==
    Bind(layout_(rad.inner, [cfg EXCEPT !.style = cramped(cfg.style)]), LAMBDA c :
    Let(as_node(c), LAMBDA contents :
    Let(IF RadicalIsDisplay(cfg.style)
        THEN scaled_em(cfg.ctx.constants.radical_display_style_vertical_gap, cfg)
        ELSE scaled_em(cfg.ctx.constants.radical_vertical_gap, cfg), LAMBDA gap0 :
    Let(scaled_em(cfg.ctx.constants.radical_rule_thickness, cfg), LAMBDA rule_thickness :
    Let((contents.height - contents.depth) + gap0 + rule_thickness, LAMBDA inner_height :
    Bind(vert_variant(cfg.ctx, "sqrt", to_font(inner_height, cfg)), LAMBDA v :
    Bind(VariantAsLayout(v, cfg), LAMBDA sqrt :
    Let(Max2(Half(sqrt.height - sqrt.depth - inner_height) + rule_thickness, gap0),
        LAMBDA gap :
    Ok(<<[VBoxOf(RadicalOffset(sqrt, rule_thickness, gap, contents), <<sqrt>>)
            EXCEPT !.tag = "sqrt"],
         [VBoxOf(0, <<KernV(scaled_em(cfg.ctx.constants.radical_extra_ascender, cfg)
                            - rule_thickness),
                      RuleNode(contents.width, rule_thickness),
                      KernV(gap), contents>>)
            EXCEPT !.tag = "radical", !.gstyle = cfg.style,
                   !.obs = [gap0 |-> gap0, gap |-> gap,
                            rule_thickness |-> rule_thickness]]>>)))))))))

\* index of the first result that is an error (0: none)
RECURSIVE FirstErr(_, _)
FirstErr(rs, i) ==
    IF i > Len(rs) THEN 0 ELSE IF ~rs[i].ok THEN i ELSE FirstErr(rs, i + 1)

\* a loop of `layout(..)?`: the layouts in order, or the first error
AllOk(rs) ==
    Let(FirstErr(rs, 1), LAMBDA e :
    IF e # 0 THEN Err(rs[e].err) ELSE Ok([n \in 1..Len(rs) |-> rs[n].val]))

\* substack: the first loop's widest line: <<widest, widest_idx>> after line n
RECURSIVE Widest(_, _)
Widest(ls, n) ==
    IF n = 0 THEN <<0, 1>>
    ELSE Let(Widest(ls, n - 1), LAMBDA w :
         IF ls[n].width > w[1] THEN <<ls[n].width, n>> ELSE w)

\* substack: the loop that joins the lines; `if idx < length` holds for every
\* index of the loop (i - 1 is the index, counted from 0)
RECURSIVE JoinLines(_, _, _, _, _)
JoinLines(vb, ls, i, gap_min, gap_try) ==
    IF i > Len(ls) THEN vb
    ELSE Let(VBoxAdd(vb, as_node(ls[i])), LAMBDA vb1 :
         JoinLines(IF i - 1 < Len(ls)
                   THEN VBoxAdd(vb1, KernV(Max2(gap_min, gap_try - ls[i].depth)))
                   ELSE vb1,
                   ls, i + 1, gap_min, gap_try))

\* substack: `let gap_min = ..`
StackGapMin(cfg) ==
    scaled_em(IF StyleGt(cfg.style, "Text")
              THEN cfg.ctx.constants.stack_display_style_gap_min
              ELSE cfg.ctx.constants.stack_gap_min, cfg)

\* substack: `let gap_try = ..`
StackGapTry(cfg) ==
    scaled_em((IF StyleGt(cfg.style, "Text")
               THEN cfg.ctx.constants.stack_top_display_style_shift_up
               ELSE cfg.ctx.constants.stack_top_shift_up)
              - cfg.ctx.constants.axis_height + cfg.ctx.constants.stack_bottom_shift_down
              - cfg.ctx.constants.accent_base_height * 2, cfg)

\* Layout::substack
substack(stack, cfg) ==
    IF Len(stack.lines) = 0 THEN Ok(<<>>)
    ELSE Bind(AllOk([n \in 1..Len(stack.lines) |-> layout_(stack.lines[n], cfg)]), LAMBDA ls :
         Let(Widest(ls, Len(ls)), LAMBDA w :
         Let(StackGapMin(cfg), LAMBDA gap_min :
         Let(StackGapTry(cfg), LAMBDA gap_try :
         Let(JoinLines(VBoxNew,
                       [n \in 1..Len(ls) |-> IF n = w[2] THEN ls[n] ELSE Widen(ls[n], w[1])],
                       1, gap_min, gap_try), LAMBDA vbox :
         Ok(<<[VBoxBuild(VBoxSetOffset(vbox,
                   Half(vbox.height + vbox.depth)
                   - scaled_em(cfg.ctx.constants.axis_height, cfg)))
                 EXCEPT !.tag = "stack", !.gstyle = cfg.style,
                        !.obs = [gap_min |-> gap_min, gap_try |-> gap_try,
                                 widest |-> w[1], widest_idx |-> w[2]]]>>))))))

RECURSIVE MaxOver(_, _, _)
MaxOver(f, n, init) == IF n = 0 THEN init ELSE Max2(MaxOver(f, n - 1, init), f[n])

\* array: the body of one column: the loop over its rows
RECURSIVE ColumnBox(_, _, _, _, _, _)
ColumnBox(vb, col, row_idx, col_width, row_heights, row_sep) ==
    IF row_idx > Len(col) THEN vb
    ELSE Let(IF col[row_idx].width < col_width
             THEN Widen(col[row_idx], col_width) ELSE col[row_idx], LAMBDA row :
         Let(IF row.height < row_heights[row_idx]
             THEN VBoxAdd(vb, KernV(row_heights[row_idx] - row.height))
             ELSE vb, LAMBDA vb1 :
         Let([as_node(row) EXCEPT !.tag = "cell"], LAMBDA node :
         ColumnBox(IF row_idx = Len(col)
                   THEN VBoxAdd(VBoxAdd(vb1, node), KernV(Max2(-node.depth, row_sep)))
                   ELSE VBoxAdd(VBoxAdd(vb1, node), KernV(row_sep)),
                   col, row_idx + 1, col_width, row_heights, row_sep))))

\* array: the loop that lays the columns into the body hbox
RECURSIVE ArrayBody(_, _, _, _, _, _)
ArrayBody(hb, columns, col_idx, col_widths, row_heights, cfg) ==
    IF col_idx > Len(columns) THEN hb
    ELSE Let(HBoxAdd(hb, [VBoxBuild(ColumnBox(VBoxNew, columns[col_idx], 1,
                                              col_widths[col_idx], row_heights,
                                              EmLiteral(1, 4, cfg)))
                            EXCEPT !.tag = "column"]), LAMBDA hb1 :
         ArrayBody(IF col_idx < Len(columns)
                   THEN HBoxAdd(hb1, KernH(EmLiteral(5, 12, cfg)))
                   ELSE hb1,
                   columns, col_idx + 1, col_widths, row_heights, cfg))

\* array: the clearance asked for its delimiters, in px
ArrayClearance(height, cfg) ==
    Max2(TimesDelimiterFactor(height), height - delimiter_short_fall(cfg))

\* array: the first loop: the layout of every square, row by row (an absent
\* square is Layout::new()), or the first error
ArraySquares(arr, num_rows, num_columns, cfg) ==
    Bind(AllOk([k \in 1..(num_rows * num_columns) |->
                  IF ((k - 1) % num_columns) + 1 <= Len(arr.rows[((k - 1) \div num_columns) + 1])
                  THEN layout_(arr.rows[((k - 1) \div num_columns) + 1]
                                       [((k - 1) % num_columns) + 1], cfg)
                  ELSE Ok(LayoutNew)]), LAMBDA flat :
    Ok([r \in 1..num_rows |-> [c \in 1..num_columns |-> flat[(r - 1) * num_columns + c]]]))

\* array: row_heights, from each row's row_max and the max_depth of the row above
ArrayRowHeights(sq, num_rows, num_columns, cfg) ==
    Let([r \in 1..num_rows |->
           MaxOver([c \in 1..num_columns |-> sq[r][c].height], num_columns,
                   EmLiteral(7, 10, cfg))], LAMBDA row_max :
    Let([r \in 1..num_rows |->
           MaxOver([c \in 1..num_columns |-> -sq[r][c].depth], num_columns, 0)],
        LAMBDA max_depth :
    [r \in 1..num_rows |->
       row_max[r] + (IF r = 1 THEN 0
                     ELSE Max2(0, max_depth[r - 1] - EmLiteral(3, 10, cfg)))]))

\* array: the body hbox of the matrix, before `hbox.build()`
ArrayHBox(arr, sq, num_rows, num_columns, cfg) ==
    Let(ArrayBody(IF arr.left_delimiter = None
                  THEN HBoxAdd(HBoxNew, KernH(null_delimiter_space(cfg)))
                  ELSE HBoxNew,
                  [c \in 1..num_columns |-> [r \in 1..num_rows |-> sq[r][c]]], 1,
                  [c \in 1..num_columns |->
                     MaxOver([r \in 1..num_rows |-> sq[r][c].width], num_rows, 0)],
                  ArrayRowHeights(sq, num_rows, num_columns, cfg), cfg), LAMBDA hb :
    IF arr.right_delimiter = None
    THEN HBoxAdd(hb, KernH(null_delimiter_space(cfg))) ELSE hb)

\* array: the delimiters around the centred body
ArrayEnclosed(arr, vbox, clearance, axis, cfg) ==
    Bind(IF arr.left_delimiter # None
         THEN ExtendedDelimiter(arr.left_delimiter[1].codepoint, clearance, axis, cfg)
         ELSE Ok(<<>>), LAMBDA left :
    Bind(IF arr.right_delimiter # None
         THEN ExtendedDelimiter(arr.right_delimiter[1].codepoint, clearance, axis, cfg)
         ELSE Ok(<<>>), LAMBDA right :
    Ok(<<HBoxOf((IF arr.left_delimiter # None THEN <<left>> ELSE <<>>)
                \o <<vbox>>
                \o (IF arr.right_delimiter # None THEN <<right>> ELSE <<>>))>>)))

\* array: what follows `if num_columns == 0 { return Ok(()); }`
ArrayBuilt(arr, num_rows, num_columns, cfg) ==
    Bind(ArraySquares(arr, num_rows, num_columns, cfg), LAMBDA sq :
    Let(ArrayHBox(arr, sq, num_rows, num_columns, cfg), LAMBDA hbox :
    Let(scaled_em(cfg.ctx.constants.axis_height, cfg), LAMBDA axis :
    Let([VBoxBuild(VBoxAdd(VBoxSetOffset(VBoxNew, Half(hbox.height) - axis),
                           [HBoxBuild(hbox) EXCEPT !.tag = "arraybody"]))
           EXCEPT !.tag = "array"], LAMBDA vbox :
    IF arr.left_delimiter = None /\ arr.right_delimiter = None THEN Ok(<<vbox>>)
    ELSE ArrayEnclosed(arr, vbox, to_font(ArrayClearance(hbox.height, cfg), cfg),
                       axis, cfg)))))

\* array: `num_columns`, the length of the longest row
ArrayColumns(arr) == MaxOver([r \in 1..Len(arr.rows) |-> Len(arr.rows[r])], Len(arr.rows), 0)

\* Layout::array, had it gone on with no columns
array_unguarded(arr, cfg) == ArrayBuilt(arr, Len(arr.rows), ArrayColumns(arr), cfg)

\* Layout::array
array(arr, cfg) ==
    IF ArrayColumns(arr) = 0 THEN Ok(<<>>)
    ELSE ArrayBuilt(arr, Len(arr.rows), ArrayColumns(arr), cfg)

\* builders::color
color(l, clr) ==
    [Node("Color", l.width, l.height, l.depth)
       EXCEPT !.color = clr.color, !.contents = l.contents, !.gstyle = l.gstyle]

\* Layout::dispatch
dispatch(cfg, node, next) ==
    CASE node.kind = "Symbol"      -> symbol(node, cfg)
      [] node.kind = "Scripts"     -> scripts(node, cfg)
      [] node.kind = "Radical"     -> radical(node, cfg)
      [] node.kind = "Delimited"   -> delimited(node, cfg)
      [] node.kind = "Accent"      -> accent(node, cfg)
      [] node.kind = "GenFraction" -> frac(node, cfg)
      [] node.kind = "Stack"       -> substack(node, cfg)
      [] node.kind = "Array"       -> array(node, cfg)
      [] node.kind \in {"AtomChange", "Group"} ->
             Bind(layout_(node.inner, cfg), LAMBDA l : Ok(<<as_node(l)>>))
      [] node.kind = "Rule"        -> Ok(<<RuleAsLayout(node, cfg)>>)
      [] node.kind = "Kerning"     -> Ok(<<KernH(scaled_unit(node.unit, cfg))>>)
      [] node.kind = "Color"       ->
             Bind(layout_recurse(node.inner, cfg, next), LAMBDA l : Ok(<<color(l, node)>>))
      [] OTHER                     -> Ok(<<>>)

\* layout_recurse: the atom type that follows nodes[i]
NextType(nodes_, i, parent_next) ==
    IF i + 1 <= Len(nodes_) THEN atom_type(nodes_[i + 1]) ELSE parent_next

\* layout_recurse: the reclassification of a Binary atom, had it looked at the
\* right neighbour as it looks at the left one
Reclassify_symmetric(prev_, current, next) ==
    IF current = "Binary"
       /\ (\/ prev_ \in {"Transparent", "Binary", "Relation", "Open", "Punctuation"}
           \/ IsOperator(prev_)
           \/ next \in {"Transparent", "Binary", "Relation", "Open", "Close", "Punctuation"}
           \/ IsOperator(next))
    THEN "Alpha" ELSE current

\* layout_recurse: the reclassification of a Binary atom, had it never happened
Reclassify_never(prev_, current, next) == current

\* layout_recurse: the reclassification of a Binary atom
Reclassify(prev_, current, next) ==
    IF current = "Binary"
       /\ (\/ prev_ \in {"Transparent", "Binary", "Relation", "Open", "Punctuation"}
           \/ IsOperator(prev_)
           \/ next \in {"Relation", "Close", "Punctuation"})
    THEN "Alpha" ELSE current

\* layout_recurse: the end of one iteration, `result.add_node(..)` of what the
\* handler produced, or the handler's error (`?`)
LoopDone(st, next, current, sp, spaced, r) ==
    IF r.ok
    THEN Ok([layout |-> add_nodes(spaced, r.val), prev |-> current, config |-> st.config,
             sp |-> sp, current |-> current, next |-> next, out |-> r.val])
    ELSE Err(r.err)

\* the alternative in which the settings are shared with the recursive call:
\* a Style node at the head of a Group stays in force after the Group
LoopSpaced_shared(st, node, next, current, sp, spaced) ==
    IF node.kind = "Style"
    THEN Ok([layout |-> spaced, prev |-> current,
             config |-> [st.config EXCEPT !.style = node.style],
             sp |-> sp, current |-> current, next |-> next, out |-> <<>>])
    ELSE Bind(LoopDone(st, next, current, sp, spaced, dispatch(st.config, node, next)),
              LAMBDA r :
                  IF node.kind = "Group" /\ node.inner # <<>> /\ node.inner[1].kind = "Style"
                  THEN Ok([r EXCEPT !.config.style = node.inner[1].style])
                  ELSE Ok(r))

\* layout_recurse: `match *node`, the Style arm and the arms that dispatch
LoopSpaced(st, node, next, current, sp, spaced) ==
    IF node.kind = "Style"
    THEN Ok([layout |-> spaced, prev |-> current,
             config |-> [st.config EXCEPT !.style = node.style],
             sp |-> sp, current |-> current, next |-> next, out |-> <<>>])
    ELSE LoopDone(st, next, current, sp, spaced, dispatch(st.config, node, next))

\* layout_recurse: `if sp != Spacing::None { result.add_node(kern) }`
LoopSpace(st, node, next, current, sp) ==
    LoopSpaced(st, node, next, current, sp,
               IF sp # "None"
               THEN add_node(st.layout,
                             KernH(scaled_px(SpacingLength(sp, st.config), st.config)))
               ELSE st.layout)

\* layout_recurse: `let sp = atom_space(prev, current, config.style)`
LoopTyped(st, node, next, current) ==
    LoopSpace(st, node, next, current, atom_space(st.prev, current, st.config.style))

\* layout_recurse: `let next = ..; let mut current = node.atom_type(); if current == Binary ..`
LoopTypes(st, node, next) ==
    LoopTyped(st, node, next, Reclassify(st.prev, atom_type(node), next))

\* layout_recurse: one iteration of the loop, on the loop state
\* st = [layout, prev, config].  Returns Ok(the next loop state) or Err(e); `sp`,
\* `current` and `out` in the result are observations.
LoopBody(st, nodes_, i, parent_next) ==
    LoopTypes(st, nodes_[i], NextType(nodes_, i, parent_next))

\* the loop of layout_recurse, had it not carried `prev` from one iteration to
\* the next
RECURSIVE LoopFrom_forgetful(_, _, _, _)
LoopFrom_forgetful(st, nodes_, i, parent_next) ==
    IF i > Len(nodes_) THEN Ok(finalize(st.layout))
    ELSE Bind(LoopBody([st EXCEPT !.prev = "Transparent"], nodes_, i, parent_next),
              LAMBDA st1 : LoopFrom_forgetful(st1, nodes_, i + 1, parent_next))

\* layout_recurse: `for idx in 0..nodes.len() { .. }` and `Ok(result.finalize())`
RECURSIVE LoopFrom(_, _, _, _)
LoopFrom(st, nodes_, i, parent_next) ==
    IF i > Len(nodes_) THEN Ok(finalize(st.layout))
    ELSE Bind(LoopBody(st, nodes_, i, parent_next), LAMBDA st1 :
              LoopFrom(st1, nodes_, i + 1, parent_next))

\* layout_recurse
layout_recurse(nodes_, cfg, parent_next) ==
    LoopFrom([layout |-> [LayoutNew EXCEPT !.gstyle = cfg.style], prev |-> "Transparent",
              config |-> cfg],
             nodes_, 1, parent_next)

(***************************************************************************)
(* Inputs: the node sequences and settings that layout() is run on         *)
(***************************************************************************)
\* bound: the longest sequence of plain symbols
MaxLen == 3

\* config.font_size, in sub-pixels per em
FontSize == 16 * UnitsPerEm

\* a symbol of each atom type, with a codepoint the font has
SymbolOfType(t) ==
    Symbol(CASE t = "Binary" -> "+" [] t = "Relation" -> "=" [] t \in {"Open", "Fence"} -> "("
             [] t = "Close" -> ")" [] t = "Punctuation" -> "," [] t = "OperatorT" -> "S"
             [] t = "OperatorF" -> "I" [] t = "Accent" -> "^" [] OTHER -> "a", t)

sym_a == Symbol("a", "Alpha")
sym_f == Symbol("f", "Alpha")
sym_plus == Symbol("+", "Binary")
sym_eq == Symbol("=", "Relation")
sym_open == Symbol("(", "Open")
sym_close == Symbol(")", "Close")
sym_dot == Symbol(".", "Punctuation")
sym_sum == Symbol("S", "OperatorT")
sym_int == Symbol("I", "OperatorF")
sym_hat == Symbol("^", "Accent")
\* a codepoint the font has no glyph for, and one whose glyph id has no metrics
sym_missing == Symbol("?", "Alpha")
sym_nogid == Symbol("g", "Alpha")

\* the atom types that the symbol sequences are drawn from
SeqTypes == {"Alpha", "Binary", "Relation", "Open", "Close", "Punctuation", "OperatorF"}

RECURSIVE SeqsUpTo(_, _)
SeqsUpTo(S, n) ==
    IF n = 0 THEN {<<>>}
    ELSE SeqsUpTo(S, n - 1) \cup {Append(q, x) : q \in {r \in SeqsUpTo(S, n - 1) : Len(r) = n - 1}, x \in S}

SymbolSeqs ==
    SeqsUpTo({SymbolOfType(t) : t \in SeqTypes}, MaxLen)
    \cup {<<SymbolOfType(l), SymbolOfType(r)>> : l \in AtomTypes, r \in AtomTypes}

frac_aa == GenFraction(<<sym_a>>, <<sym_a>>, [kind |-> "Default"], None, None, "NoChange")
sub_a == Scripts(Some(sym_a), None, Some(<<sym_a>>))

ScriptBases ==
    {None, Some(sym_a), Some(sym_f), Some(sym_sum), Some(sym_int), Some(sym_missing),
     Some(sym_eq), Some(Accent(sym_hat, <<sym_a>>)), Some(Accent(sym_hat, <<sym_missing>>)),
     Some(Group(<<sym_a, sym_f>>)), Some(sub_a), Some(Radical(<<sym_f>>))}
ScriptSups == {None, Some(<<sym_a>>), Some(<<sym_f>>), Some(<<sym_eq>>), Some(<<sym_missing>>)}
ScriptSubs == {None, Some(<<sym_a>>), Some(<<sym_f>>), Some(<<sub_a>>),
               Some(<<Scripts(Some(sym_sum), None, Some(<<sym_a>>))>>)}

\* a superscript that has a superscript of its own
sup_sup == Scripts(Some(sym_a), Some(<<Scripts(Some(sym_a), Some(<<sym_a>>), None)>>), None)

\* an integral that takes limits, with scripts narrower and wider than it
sym_lim == Symbol("I", "OperatorT")
LimitsNodes ==
    {Scripts(Some(sym_lim), sp, sb) :
        sp \in {None, Some(<<sym_f>>)},
        sb \in {None, Some(<<sym_a>>), Some(<<sym_a, sym_eq, sym_a>>)}}

ScriptsNodes ==
    {Scripts(b, sp, sb) : b \in ScriptBases, sp \in ScriptSups, sb \in ScriptSubs}
    \cup {sup_sup} \cup LimitsNodes

RadicalNodes ==
    {Radical(xs) : xs \in {<<>>, <<sym_a>>, <<sym_f>>, <<Radical(<<sym_a>>)>>, <<frac_aa>>,
                           <<sym_missing>>, <<sub_a>>}}

DelimSymbols == {sym_open, sym_close, sym_dot, sym_missing}

DelimitedNodes ==
    {Delimited(l, r, xs) : l \in DelimSymbols, r \in DelimSymbols,
                           xs \in {<<>>, <<sym_a>>, <<frac_aa>>, <<sym_f, sub_a>>}}

FracDelims ==
    {<<None, None>>, <<Some(sym_open), Some(sym_close)>>, <<Some(sym_dot), None>>,
     <<None, Some(sym_dot)>>, <<Some(sym_missing), None>>, <<Some(sym_open), Some(sym_missing)>>}

GenFractionNodes ==
    {GenFraction(nd[1], nd[2], bar, lr[1], lr[2], sty) :
        nd \in {<<<<sym_a>>, <<sym_a>>>>, <<<<sym_a, sym_plus, sym_a>>, <<sym_f>>>>,
                <<<<sub_a>>, <<sym_f, sym_f>>>>, <<<<sym_a>>, <<sym_missing>>>>,
                <<<<sym_f>>, <<sym_a, sym_a>>>>},
        bar \in {[kind |-> "Default"], [kind |-> "None"], [kind |-> "Unit", u |-> Px(32)]},
        lr \in FracDelims, sty \in {"NoChange", "Display", "Text"}}

AccentNodes ==
    {Accent(sy, xs) : sy \in {sym_hat, sym_missing},
                      xs \in {<<>>, <<sym_a>>, <<sym_f>>, <<sym_a, sym_a, sym_a>>, <<sym_eq>>}}

StackNodes ==
    {Stack(at, ls) : at \in {"Alpha", "Inner"},
                     ls \in {<<>>, << <<sym_a>> >>, << <<sym_a>>, <<sym_f, sym_f>> >>,
                             << <<sym_a, sym_a>>, <<sym_f>>, <<>> >>, << <<sym_missing>> >>,
                             << <<frac_aa>>, <<sym_a>> >>,
                             << <<Kerning(Px(-64))>>, <<sym_a>> >>,
                             << <<Kerning(Px(-64))>>, <<>> >>}}

ArrayNodes ==
    {Array(rows, l, r) :
        rows \in {<<>>, << <<>> >>, << << <<sym_a>> >> >>,
                  << << <<sym_a>>, <<sym_f>> >>, << <<sym_f, sym_f>> >> >>,
                  << << <<sub_a>>, <<sym_a>> >>, << <<sym_a>>, <<frac_aa>> >> >>,
                  << << <<sym_missing>> >> >>},
        l \in {None, Some(sym_open), Some(sym_dot), Some(sym_missing)},
        r \in {None, Some(sym_close)}}

OtherNodes ==
    {AtomChange("Relation", <<sym_a>>), AtomChange("Binary", <<sym_a, sym_a>>),
     AtomChange("Alpha", <<sym_missing>>),
     Group(<<>>), Group(<<sym_a, sym_plus, sym_a>>), Group(<<sym_eq>>),
     Rule(Em(12), Px(32)), Rule(Px(160), Em(6)),
     Kerning(Em(12)), Kerning(Px(-64)),
     Color("red", <<sym_a>>), Color("blue", <<sym_plus, sym_a>>), Color("red", <<>>),
     Color("red", <<sym_missing>>), Color("red", <<Color("blue", <<sym_eq>>)>>),
     Extend("(", Em(24))}
    \cup {StyleNode(sty) : sty \in Styles}

\* an operator whose glyph has no larger variant and does not lie centred on
\* the axis, alone and in a cell of an array with a delimiter
sym_op == Symbol("a", "OperatorF")
CentredNodes ==
    {sym_op,
     Array(<< << <<sym_op>>, <<sym_f>> >>, << <<sym_f, sym_f>> >> >>, None, Some(sym_close))}

\* Color nodes in each place of a node from which a VerticalBox is built
red_a == Color("red", <<sym_a>>)
blue_f == Color("blue", <<sym_f>>)
ColouredNodes ==
    {Scripts(Some(red_a), Some(<<blue_f>>), Some(<<red_a>>)),
     Scripts(Some(Color("red", <<sym_sum>>)), Some(<<blue_f>>), Some(<<red_a>>)),
     GenFraction(<<red_a>>, <<blue_f>>, [kind |-> "Default"], None, None, "NoChange"),
     Radical(<<red_a>>), Accent(sym_hat, <<red_a>>),
     Stack("Alpha", << <<red_a>>, <<blue_f>> >>),
     Array(<< << <<red_a>>, <<blue_f>> >> >>, Some(sym_open), None),
     Delimited(sym_open, sym_close, <<red_a, frac_aa>>)}

\* a Style node inside each kind of container
StyledNodes ==
    {Group(<<StyleNode("Script"), sym_a>>), Group(<<sym_a, StyleNode("Display"), sym_a>>),
     Color("red", <<StyleNode("Script"), sym_a>>),
     AtomChange("Alpha", <<StyleNode("ScriptScript"), sym_a>>),
     GenFraction(<<StyleNode("Display"), sym_a>>, <<sym_a, StyleNode("Text")>>,
                 [kind |-> "Default"], None, None, "NoChange"),
     Scripts(Some(sym_a), Some(<<StyleNode("Display"), sym_a>>), None),
     Radical(<<StyleNode("Script"), sym_a>>),
     Group(<<Group(<<StyleNode("Script")>>), sym_a>>)}

Composites ==
    ScriptsNodes \cup RadicalNodes \cup DelimitedNodes \cup GenFractionNodes
    \cup AccentNodes \cup StackNodes \cup ArrayNodes \cup OtherNodes \cup CentredNodes
    \cup ColouredNodes \cup StyledNodes

\* atoms of which some are coloured, the colour ending or beginning between
\* two atoms that are spaced
ColourSeqs ==
    {<<Color("red", <<sym_a, sym_eq>>), sym_a>>, <<sym_a, Color("red", <<sym_eq, sym_a>>)>>,
     <<sym_a, Color("red", <<sym_eq>>), sym_a>>, <<sym_a, Color("red", <<sym_plus>>), sym_a>>,
     <<sym_a, Color("red", <<sym_plus, sym_a>>)>>, <<Color("red", <<sym_a, sym_plus>>), sym_a>>,
     <<sym_a, Color("red", <<>>), sym_eq>>,
     <<sym_a, Color("red", <<Color("blue", <<sym_dot>>)>>), sym_a>>}

\* the node sequences: symbol sequences, every composite alone, after and
\* before a symbol, a Style node between two atoms, a Style node before a
\* container that holds one, and the coloured sequences
Inputs ==
    SymbolSeqs
    \cup {<<e>> : e \in Composites}
    \cup {<<sym_a, e>> : e \in Composites}
    \cup {<<e, sym_plus>> : e \in Composites}
    \cup {<<p, StyleNode(sty), sym_a>> :
             p \in {sym_dot, sym_eq, frac_aa}, sty \in {"Display", "Script"}}
    \cup {<<StyleNode(sty), e, sym_plus>> :
             sty \in {"Script", "TextCramped"}, e \in StyledNodes}
    \cup ColourSeqs

(***************************************************************************)
(* The state machine: layout() run on an input, one iteration of the loop  *)
(* of layout_recurse per step                                              *)
(***************************************************************************)
NoStep == [kind |-> "", idx |-> 0, style |-> "", lprev |-> "", type |-> "", sp |-> "None",
           current |-> "", next |-> "", out |-> <<>>, before |-> LayoutNew]

Init ==
    /\ nodes \in Inputs
    /\ config \in {[ctx |-> FontContextNew, font_size |-> FontSize, style |-> sty] : sty \in Styles}
    /\ idx = 1
    /\ prev = "Transparent"
    /\ layout = [LayoutNew EXCEPT !.gstyle = config.style]
    /\ result = [st |-> "none"]
    /\ last = NoStep
    /\ name = ""
    /\ found = [st |-> "idle"]
    /\ scene = [st |-> "idle"]

\* one iteration of the loop of layout_recurse: `?` returns the error
Step ==
    LET With(r) ==
            IF r.ok
            THEN /\ layout' = r.val.layout
                 /\ prev' = r.val.prev
                 /\ config' = r.val.config
                 /\ idx' = idx + 1
                 /\ last' = [kind |-> nodes[idx].kind, idx |-> idx, style |-> config.style,
                             lprev |-> prev, type |-> atom_type(nodes[idx]),
                             sp |-> r.val.sp, current |-> r.val.current,
                             next |-> r.val.next, out |-> r.val.out, before |-> layout]
                 /\ UNCHANGED result
            ELSE /\ result' = [st |-> "err", err |-> r.err]
                 /\ last' = [NoStep EXCEPT !.kind = nodes[idx].kind, !.idx = idx,
                                           !.style = config.style]
                 /\ UNCHANGED <<layout, prev, config, idx>>
    IN  /\ result.st = "none"
        /\ idx <= Len(nodes)
        /\ With(LoopBody([layout |-> layout, prev |-> prev, config |-> config],
                         nodes, idx, "Transparent"))
        /\ UNCHANGED <<nodes, name, found, scene>>

\* the iteration on a Symbol node
StepSymbol ==
    /\ idx <= Len(nodes)
    /\ nodes[idx].kind = "Symbol"
    /\ Step
\* the iteration on a Scripts node
StepScripts ==
    /\ idx <= Len(nodes)
    /\ nodes[idx].kind = "Scripts"
    /\ Step
\* the iteration on a Radical node
StepRadical ==
    /\ idx <= Len(nodes)
    /\ nodes[idx].kind = "Radical"
    /\ Step
\* the iteration on a Delimited node
StepDelimited ==
    /\ idx <= Len(nodes)
    /\ nodes[idx].kind = "Delimited"
    /\ Step
\* the iteration on a Accent node
StepAccent ==
    /\ idx <= Len(nodes)
    /\ nodes[idx].kind = "Accent"
    /\ Step
\* the iteration on a GenFraction node
StepGenFraction ==
    /\ idx <= Len(nodes)
    /\ nodes[idx].kind = "GenFraction"
    /\ Step
\* the iteration on a Stack node
StepStack ==
    /\ idx <= Len(nodes)
    /\ nodes[idx].kind = "Stack"
    /\ Step
\* the iteration on a Array node
StepArray ==
    /\ idx <= Len(nodes)
    /\ nodes[idx].kind = "Array"
    /\ Step
\* the iteration on a AtomChange node
StepAtomChange ==
    /\ idx <= Len(nodes)
    /\ nodes[idx].kind = "AtomChange"
    /\ Step
\* the iteration on a Group node
StepGroup ==
    /\ idx <= Len(nodes)
    /\ nodes[idx].kind = "Group"
    /\ Step
\* the iteration on a Rule node
StepRule ==
    /\ idx <= Len(nodes)
    /\ nodes[idx].kind = "Rule"
    /\ Step
\* the iteration on a Kerning node
StepKerning ==
    /\ idx <= Len(nodes)
    /\ nodes[idx].kind = "Kerning"
    /\ Step
\* the iteration on a Color node
StepColor ==
    /\ idx <= Len(nodes)
    /\ nodes[idx].kind = "Color"
    /\ Step
\* the iteration on a Style node
StepStyle ==
    /\ idx <= Len(nodes)
    /\ nodes[idx].kind = "Style"
    /\ Step
\* the iteration on a Extend node
StepIgnored ==
    /\ idx <= Len(nodes)
    /\ nodes[idx].kind = "Extend"
    /\ Step

\* the loop is over: layout_recurse returns Ok(layout.finalize())
Finish ==
    /\ result.st = "none"
    /\ idx > Len(nodes)
    /\ result' = [st |-> "ok", layout |-> finalize(layout)]
    /\ UNCHANGED <<nodes, config, idx, prev, layout, last, name, found, scene>>

(***************************************************************************)
(* Renderer and SceneWrapper (render/mod.rs, render/scene.rs).  The cursor *)
(* and the sizes of the calls are left out; `anc` is an observation: the   *)
(* colours of the Color nodes that enclose the node being rendered.        *)
(***************************************************************************)
\* what a traversal has done: the backend calls made, and whether it panicked
Emitted(calls) == [calls |-> calls, panic |-> FALSE]
Panicked == [calls |-> <<>>, panic |-> TRUE]

\* one statement after another: nothing runs after a panic
Then(r, F(_)) ==
    IF r.panic THEN r
    ELSE Let(F(r.calls), LAMBDA r2 : [calls |-> r.calls \o r2.calls, panic |-> r2.panic])

\* the Backend calls
SymbolCall(n, anc) == [op |-> "symbol", gid |-> n.gid, anc |-> anc]
RuleCall(n, anc)   == [op |-> "rule", width |-> n.width, anc |-> anc]
BeginColor(c)      == [op |-> "begin_color", color |-> c]
EndColor           == [op |-> "end_color"]

RECURSIVE render_hbox(_, _)
RECURSIVE render_vbox(_, _)

\* Renderer::render_node (debug off; the engine builds no Grid)
render_node(node, anc) ==
    CASE node.kind = "Glyph"         -> Emitted(<<SymbolCall(node, anc)>>)
      [] node.kind = "Rule"          -> Emitted(<<RuleCall(node, anc)>>)
      [] node.kind = "VerticalBox"   -> render_vbox(node.contents, anc)
      [] node.kind = "HorizontalBox" -> render_hbox(node.contents, anc)
      [] node.kind = "Color" ->
             Then(Emitted(<<BeginColor(node.color)>>), LAMBDA c1 :
             Then(render_hbox(node.contents, Append(anc, node.color)), LAMBDA c2 :
             Emitted(<<EndColor>>)))
      [] OTHER                       -> Emitted(<<>>)

\* Renderer::render_vbox: the `match node.node` of its loop
render_vbox_node(node, anc) ==
    CASE node.kind = "Rule"          -> Emitted(<<RuleCall(node, anc)>>)
      [] node.kind = "HorizontalBox" -> render_hbox(node.contents, anc)
      [] node.kind = "VerticalBox"   -> render_vbox(node.contents, anc)
      [] node.kind = "Glyph"         -> Emitted(<<SymbolCall(node, anc)>>)
      [] node.kind = "Color"         -> Panicked
      [] OTHER                       -> Emitted(<<>>)

\* Renderer::render_hbox: `for node in nodes { self.render_node(out, pos, node); .. }`
render_hbox(ns, anc) ==
    IF ns = <<>> THEN Emitted(<<>>)
    ELSE Then(render_node(Head(ns), anc), LAMBDA c : render_hbox(Tail(ns), anc))

\* Renderer::render_vbox: `for node in nodes { match node.node { .. } .. }`
render_vbox(ns, anc) ==
    IF ns = <<>> THEN Emitted(<<>>)
    ELSE Then(render_vbox_node(Head(ns), anc), LAMBDA c : render_vbox(Tail(ns), anc))

\* Renderer::render
render(l) == render_hbox(l.contents, <<>>)

\* SceneWrapper::with_transform: the paint is black and the colour stack empty;
\* `drawn` is an observation: the paint of each path pushed, with the call
SceneWrapperNew == [paint |-> "black", color_stack |-> <<>>, panic |-> FALSE, drawn |-> <<>>]

\* SceneWrapper::begin_color
begin_color(sw, c) == [sw EXCEPT !.color_stack = Append(sw.color_stack, sw.paint), !.paint = c]

\* SceneWrapper::end_color that leaves the paint as it is
end_color_keep(sw) ==
    IF sw.color_stack = <<>> THEN [sw EXCEPT !.panic = TRUE]
    ELSE [sw EXCEPT !.color_stack = SubSeq(sw.color_stack, 1, Len(sw.color_stack) - 1)]

\* SceneWrapper::end_color: `self.color_stack.pop().unwrap()` panics on an empty stack
end_color(sw) ==
    IF sw.color_stack = <<>> THEN [sw EXCEPT !.panic = TRUE]
    ELSE [sw EXCEPT !.paint = sw.color_stack[Len(sw.color_stack)],
                    !.color_stack = SubSeq(sw.color_stack, 1, Len(sw.color_stack) - 1)]

\* SceneWrapper::symbol / rule: a path is pushed with the paint in force
draw(sw, call) == [sw EXCEPT !.drawn = Append(sw.drawn, [paint |-> sw.paint, call |-> call])]

\* the SceneWrapper as the Backend of a sequence of calls
RECURSIVE Backend(_, _)
Backend(sw, calls) ==
    IF calls = <<>> \/ sw.panic THEN sw
    ELSE Backend(CASE Head(calls).op = "begin_color" -> begin_color(sw, Head(calls).color)
                   [] Head(calls).op = "end_color"   -> end_color(sw)
                   [] OTHER                          -> draw(sw, Head(calls)),
                 Tail(calls))

\* Renderer::render(&layout, &mut SceneWrapper::new(..)) on the layout returned
Render ==
    /\ result.st = "ok"
    /\ scene.st = "idle"
    /\ LET r == render(result.layout)
       IN  scene' = [st |-> "done", calls |-> r.calls, panic |-> r.panic,
                     wrapper |-> Backend(SceneWrapperNew, r.calls)]
    /\ UNCHANGED <<nodes, config, idx, prev, layout, result, last, name, found>>

Next ==
    \/ StepSymbol \/ StepScripts \/ StepRadical \/ StepDelimited \/ StepAccent
    \/ StepGenFraction \/ StepStack \/ StepArray \/ StepAtomChange \/ StepGroup
    \/ StepRule \/ StepKerning \/ StepColor \/ StepStyle \/ StepIgnored \/ Finish
    \/ Render

Spec == Init /\ [][Next]_vars

TypeOK ==
    /\ idx \in 1..(Len(nodes) + 1)
    /\ prev \in AtomTypes
    /\ config.style \in Styles
    /\ result.st \in {"none", "ok", "err"}

(***************************************************************************)
(* RGBA::from_name (ast/color.rs): the colour of a name, looked up by a    *)
(* binary search of COLOR_MAP.  The outcome of the search of a slice that  *)
(* is not sorted is left open by the standard library, so from_name is     *)
(* modelled under each of the searches that the library has shipped.       *)
(***************************************************************************)
\* struct RGBA(u8, u8, u8, u8)
RGBA(r, g, b, a) == <<r, g, b, a>>

\* static COLOR_MAP, in the order of the source
COLOR_MAP == <<
    <<"black", RGBA(0, 0, 0, 255)>>, <<"silver", RGBA(192, 192, 192, 255)>>,
    <<"gray", RGBA(128, 128, 128, 255)>>,
    <<"white", RGBA(255, 255, 255, 255)>>,
    <<"maroon", RGBA(128, 0, 0, 255)>>, <<"red", RGBA(255, 0, 0, 255)>>,
    <<"purple", RGBA(128, 0, 128, 255)>>,
    <<"fuchsia", RGBA(255, 0, 255, 255)>>, <<"green", RGBA(0, 128, 0, 255)>>,
    <<"lime", RGBA(0, 255, 0, 255)>>, <<"olive", RGBA(128, 128, 0, 255)>>,
    <<"yellow", RGBA(255, 255, 0, 255)>>, <<"navy", RGBA(0, 0, 128, 255)>>,
    <<"blue", RGBA(0, 0, 255, 255)>>, <<"teal", RGBA(0, 128, 128, 255)>>,
    <<"aqua", RGBA(0, 255, 255, 255)>>, <<"orange", RGBA(255, 165, 0, 255)>>,
    <<"aliceblue", RGBA(240, 248, 255, 255)>>,
    <<"antiquewhite", RGBA(250, 235, 215, 255)>>,
    <<"aquamarine", RGBA(127, 255, 212, 255)>>,
    <<"azure", RGBA(240, 255, 255, 255)>>,
    <<"beige", RGBA(245, 245, 220, 255)>>,
    <<"bisque", RGBA(255, 228, 196, 255)>>,
    <<"blanchedalmond", RGBA(255, 235, 205, 255)>>,
    <<"blueviolet", RGBA(138, 43, 226, 255)>>,
    <<"brown", RGBA(165, 42, 42, 255)>>,
    <<"burlywood", RGBA(222, 184, 135, 255)>>,
    <<"cadetblue", RGBA(95, 158, 160, 255)>>,
    <<"chartreuse", RGBA(127, 255, 0, 255)>>,
    <<"chocolate", RGBA(210, 105, 30, 255)>>,
    <<"coral", RGBA(255, 127, 80, 255)>>,
    <<"cornflowerblue", RGBA(100, 149, 237, 255)>>,
    <<"cornsilk", RGBA(255, 248, 220, 255)>>,
    <<"crimson", RGBA(220, 20, 60, 255)>>,
    <<"cyan", RGBA(0, 255, 255, 255)>>, <<"darkblue", RGBA(0, 0, 139, 255)>>,
    <<"darkcyan", RGBA(0, 139, 139, 255)>>,
    <<"darkgoldenrod", RGBA(184, 134, 11, 255)>>,
    <<"darkgray", RGBA(169, 169, 169, 255)>>,
    <<"darkgreen", RGBA(0, 100, 0, 255)>>,
    <<"darkgrey", RGBA(169, 169, 169, 255)>>,
    <<"darkkhaki", RGBA(189, 183, 107, 255)>>,
    <<"darkmagenta", RGBA(139, 0, 139, 255)>>,
    <<"darkolivegreen", RGBA(85, 107, 47, 255)>>,
    <<"darkorange", RGBA(255, 140, 0, 255)>>,
    <<"darkorchid", RGBA(153, 50, 204, 255)>>,
    <<"darkred", RGBA(139, 0, 0, 255)>>,
    <<"darksalmon", RGBA(233, 150, 122, 255)>>,
    <<"darkseagreen", RGBA(143, 188, 143, 255)>>,
    <<"darkslateblue", RGBA(72, 61, 139, 255)>>,
    <<"darkslategray", RGBA(47, 79, 79, 255)>>,
    <<"darkslategrey", RGBA(47, 79, 79, 255)>>,
    <<"darkturquoise", RGBA(0, 206, 209, 255)>>,
    <<"darkviolet", RGBA(148, 0, 211, 255)>>,
    <<"deeppink", RGBA(255, 20, 147, 255)>>,
    <<"deepskyblue", RGBA(0, 191, 255, 255)>>,
    <<"dimgray", RGBA(105, 105, 105, 255)>>,
    <<"dimgrey", RGBA(105, 105, 105, 255)>>,
    <<"dodgerblue", RGBA(30, 144, 255, 255)>>,
    <<"firebrick", RGBA(178, 34, 34, 255)>>,
    <<"floralwhite", RGBA(255, 250, 240, 255)>>,
    <<"forestgreen", RGBA(34, 139, 34, 255)>>,
    <<"gainsboro", RGBA(220, 220, 220, 255)>>,
    <<"ghostwhite", RGBA(248, 248, 255, 255)>>,
    <<"gold", RGBA(255, 215, 0, 255)>>,
    <<"goldenrod", RGBA(218, 165, 32, 255)>>,
    <<"greenyellow", RGBA(173, 255, 47, 255)>>,
    <<"grey", RGBA(128, 128, 128, 255)>>,
    <<"honeydew", RGBA(240, 255, 240, 255)>>,
    <<"hotpink", RGBA(255, 105, 180, 255)>>,
    <<"indianred", RGBA(205, 92, 92, 255)>>,
    <<"indigo", RGBA(75, 0, 130, 255)>>,
    <<"ivory", RGBA(255, 255, 240, 255)>>,
    <<"khaki", RGBA(240, 230, 140, 255)>>,
    <<"lavender", RGBA(230, 230, 250, 255)>>,
    <<"lavenderblush", RGBA(255, 240, 245, 255)>>,
    <<"lawngreen", RGBA(124, 252, 0, 255)>>,
    <<"lemonchiffon", RGBA(255, 250, 205, 255)>>,
    <<"lightblue", RGBA(173, 216, 230, 255)>>,
    <<"lightcoral", RGBA(240, 128, 128, 255)>>,
    <<"lightcyan", RGBA(224, 255, 255, 255)>>,
    <<"lightgoldenrodyellow", RGBA(250, 250, 210, 255)>>,
    <<"lightgray", RGBA(211, 211, 211, 255)>>,
    <<"lightgreen", RGBA(144, 238, 144, 255)>>,
    <<"lightgrey", RGBA(211, 211, 211, 255)>>,
    <<"lightpink", RGBA(255, 182, 193, 255)>>,
    <<"lightsalmon", RGBA(255, 160, 122, 255)>>,
    <<"lightseagreen", RGBA(32, 178, 170, 255)>>,
    <<"lightskyblue", RGBA(135, 206, 250, 255)>>,
    <<"lightslategray", RGBA(119, 136, 153, 255)>>,
    <<"lightslategrey", RGBA(119, 136, 153, 255)>>,
    <<"lightsteelblue", RGBA(176, 196, 222, 255)>>,
    <<"lightyellow", RGBA(255, 255, 224, 255)>>,
    <<"limegreen", RGBA(50, 205, 50, 255)>>,
    <<"linen", RGBA(250, 240, 230, 255)>>,
    <<"magenta", RGBA(255, 0, 255, 255)>>,
    <<"mediumaquamarine", RGBA(102, 205, 170, 255)>>,
    <<"mediumblue", RGBA(0, 0, 205, 255)>>,
    <<"mediumorchid", RGBA(186, 85, 211, 255)>>,
    <<"mediumpurple", RGBA(147, 112, 219, 255)>>,
    <<"mediumseagreen", RGBA(60, 179, 113, 255)>>,
    <<"mediumslateblue", RGBA(123, 104, 238, 255)>>,
    <<"mediumspringgreen", RGBA(0, 250, 154, 255)>>,
    <<"mediumturquoise", RGBA(72, 209, 204, 255)>>,
    <<"mediumvioletred", RGBA(199, 21, 133, 255)>>,
    <<"midnightblue", RGBA(25, 25, 112, 255)>>,
    <<"mintcream", RGBA(245, 255, 250, 255)>>,
    <<"mistyrose", RGBA(255, 228, 225, 255)>>,
    <<"moccasin", RGBA(255, 228, 181, 255)>>,
    <<"navajowhite", RGBA(255, 222, 173, 255)>>,
    <<"oldlace", RGBA(253, 245, 230, 255)>>,
    <<"olivedrab", RGBA(107, 142, 35, 255)>>,
    <<"orangered", RGBA(255, 69, 0, 255)>>,
    <<"orchid", RGBA(218, 112, 214, 255)>>,
    <<"palegoldenrod", RGBA(238, 232, 170, 255)>>,
    <<"palegreen", RGBA(152, 251, 152, 255)>>,
    <<"paleturquoise", RGBA(175, 238, 238, 255)>>,
    <<"palevioletred", RGBA(219, 112, 147, 255)>>,
    <<"papayawhip", RGBA(255, 239, 213, 255)>>,
    <<"peachpuff", RGBA(255, 218, 185, 255)>>,
    <<"peru", RGBA(205, 133, 63, 255)>>,
    <<"pink", RGBA(255, 192, 203, 255)>>,
    <<"plum", RGBA(221, 160, 221, 255)>>,
    <<"powderblue", RGBA(176, 224, 230, 255)>>,
    <<"rosybrown", RGBA(188, 143, 143, 255)>>,
    <<"royalblue", RGBA(65, 105, 225, 255)>>,
    <<"saddlebrown", RGBA(139, 69, 19, 255)>>,
    <<"salmon", RGBA(250, 128, 114, 255)>>,
    <<"sandybrown", RGBA(244, 164, 96, 255)>>,
    <<"seagreen", RGBA(46, 139, 87, 255)>>,
    <<"seashell", RGBA(255, 245, 238, 255)>>,
    <<"sienna", RGBA(160, 82, 45, 255)>>,
    <<"skyblue", RGBA(135, 206, 235, 255)>>,
    <<"slateblue", RGBA(106, 90, 205, 255)>>,
    <<"slategray", RGBA(112, 128, 144, 255)>>,
    <<"slategrey", RGBA(112, 128, 144, 255)>>,
    <<"snow", RGBA(255, 250, 250, 255)>>,
    <<"springgreen", RGBA(0, 255, 127, 255)>>,
    <<"steelblue", RGBA(70, 130, 180, 255)>>,
    <<"tan", RGBA(210, 180, 140, 255)>>,
    <<"thistle", RGBA(216, 191, 216, 255)>>,
    <<"tomato", RGBA(255, 99, 71, 255)>>,
    <<"turquoise", RGBA(64, 224, 208, 255)>>,
    <<"violet", RGBA(238, 130, 238, 255)>>,
    <<"wheat", RGBA(245, 222, 179, 255)>>,
    <<"whitesmoke", RGBA(245, 245, 245, 255)>>,
    <<"yellowgreen", RGBA(154, 205, 50, 255)>>,
    <<"rebeccapurple", RGBA(102, 51, 153, 255)>>,
    <<"phantom", RGBA(0, 0, 0, 0)>>, <<"transparent", RGBA(0, 0, 0, 0)>>
    >>

\* names that are not in COLOR_MAP
AbsentNames == {"", "aqua2", "blak", "orange ", "zzz"}

\* the order of `str`: the names of COLOR_MAP and the absent names, by their bytes
NameOrder == <<
    "", "aliceblue", "antiquewhite", "aqua", "aqua2", "aquamarine", "azure",
    "beige", "bisque", "black", "blak", "blanchedalmond", "blue",
    "blueviolet", "brown", "burlywood", "cadetblue", "chartreuse",
    "chocolate", "coral", "cornflowerblue", "cornsilk", "crimson", "cyan",
    "darkblue", "darkcyan", "darkgoldenrod", "darkgray", "darkgreen",
    "darkgrey", "darkkhaki", "darkmagenta", "darkolivegreen", "darkorange",
    "darkorchid", "darkred", "darksalmon", "darkseagreen", "darkslateblue",
    "darkslategray", "darkslategrey", "darkturquoise", "darkviolet",
    "deeppink", "deepskyblue", "dimgray", "dimgrey", "dodgerblue",
    "firebrick", "floralwhite", "forestgreen", "fuchsia", "gainsboro",
    "ghostwhite", "gold", "goldenrod", "gray", "green", "greenyellow",
    "grey", "honeydew", "hotpink", "indianred", "indigo", "ivory", "khaki",
    "lavender", "lavenderblush", "lawngreen", "lemonchiffon", "lightblue",
    "lightcoral", "lightcyan", "lightgoldenrodyellow", "lightgray",
    "lightgreen", "lightgrey", "lightpink", "lightsalmon", "lightseagreen",
    "lightskyblue", "lightslategray", "lightslategrey", "lightsteelblue",
    "lightyellow", "lime", "limegreen", "linen", "magenta", "maroon",
    "mediumaquamarine", "mediumblue", "mediumorchid", "mediumpurple",
    "mediumseagreen", "mediumslateblue", "mediumspringgreen",
    "mediumturquoise", "mediumvioletred", "midnightblue", "mintcream",
    "mistyrose", "moccasin", "navajowhite", "navy", "oldlace", "olive",
    "olivedrab", "orange", "orange ", "orangered", "orchid", "palegoldenrod",
    "palegreen", "paleturquoise", "palevioletred", "papayawhip", "peachpuff",
    "peru", "phantom", "pink", "plum", "powderblue", "purple",
    "rebeccapurple", "red", "rosybrown", "royalblue", "saddlebrown",
    "salmon", "sandybrown", "seagreen", "seashell", "sienna", "silver",
    "skyblue", "slateblue", "slategray", "slategrey", "snow", "springgreen",
    "steelblue", "tan", "teal", "thistle", "tomato", "transparent",
    "turquoise", "violet", "wheat", "white", "whitesmoke", "yellow",
    "yellowgreen", "zzz"
    >>

\* Ord for &str: the position of a name in the order of `str`
Rank(s) == CHOOSE i \in DOMAIN NameOrder : NameOrder[i] = s
Cmp(a, b) ==
    IF Rank(a) < Rank(b) THEN "Less" ELSE IF Rank(a) > Rank(b) THEN "Greater" ELSE "Equal"

\* slice::binary_search_by as it was up to Rust 1.51 and is again from 1.82:
\* `while size > 1 { half = size / 2; mid = base + half;
\*                   base = if cmp == Greater { base } else { mid }; size -= half }`
\* (indices count from 0)
RECURSIVE SearchBase(_, _, _, _)
SearchBase(t, key, base, size) ==
    IF size > 1
    THEN SearchBase(t, key,
                    IF Cmp(t[base + (size \div 2) + 1][1], key) = "Greater"
                    THEN base ELSE base + (size \div 2),
                    size - (size \div 2))
    ELSE base

\* the search by halving: Some(idx) for Ok(idx), None for Err(_)
binary_search_halving(t, key) ==
    IF Len(t) = 0 THEN None
    ELSE IF Cmp(t[SearchBase(t, key, 0, Len(t)) + 1][1], key) = "Equal"
         THEN Some(SearchBase(t, key, 0, Len(t))) ELSE None

\* slice::binary_search_by from Rust 1.52 to 1.81:
\* `while left < right { mid = left + size / 2; match cmp { Less => left = mid + 1,
\*    Greater => right = mid, Equal => return Ok(mid) }; size = right - left }`
RECURSIVE binary_search_bounds(_, _, _, _)
binary_search_bounds(t, key, left, right) ==
    IF left < right
    THEN Let(left + ((right - left) \div 2), LAMBDA mid :
         Let(Cmp(t[mid + 1][1], key), LAMBDA c :
         IF c = "Less" THEN binary_search_bounds(t, key, mid + 1, right)
         ELSE IF c = "Greater" THEN binary_search_bounds(t, key, left, mid)
         ELSE Some(mid)))
    ELSE None

\* the searches of the standard library
Searches == {"halving", "bounds"}

\* COLOR_MAP.binary_search_by_key(&name, |&(name, color)| name)
binary_search_by_key(t, key, search) ==
    IF search = "halving" THEN binary_search_halving(t, key)
    ELSE binary_search_bounds(t, key, 0, Len(t))

\* RGBA::from_name
from_name(name_, search) ==
    Let(binary_search_by_key(COLOR_MAP, name_, search), LAMBDA found_ :
    IF found_ # None THEN Some(COLOR_MAP[found_[1] + 1][2]) ELSE None)

\* the names that from_name is called with
ColorNames == {COLOR_MAP[i][1] : i \in DOMAIN COLOR_MAP} \cup AbsentNames

\* a call of from_name: the layout engine stays as it is
InitColor ==
    /\ name \in ColorNames
    /\ found = [st |-> "none"]
    /\ nodes = <<>>
    /\ config = [ctx |-> FontContextNew, font_size |-> FontSize, style |-> "Display"]
    /\ idx = 1
    /\ prev = "Transparent"
    /\ layout = [LayoutNew EXCEPT !.gstyle = config.style]
    /\ result = [st |-> "none"]
    /\ last = NoStep
    /\ scene = [st |-> "idle"]

\* from_name returns
FromName ==
    /\ found.st = "none"
    /\ \E search \in Searches : found' = [st |-> "done", val |-> from_name(name, search)]
    /\ UNCHANGED <<nodes, config, idx, prev, layout, result, last, name, scene>>

NextColor == FromName

SpecColor == InitColor /\ [][NextColor]_vars

(***************************************************************************)
(* Renderer::render on layout trees built by hand: Layout, LayoutNode and  *)
(* LayoutVariant are public, so a caller can hand render any tree          *)
(***************************************************************************)
\* the depth of the trees
TreeDepth == 3

TreeLeaves == {[Node("Glyph", 16, 16, 0) EXCEPT !.gid = 1], RuleNode(16, 8)}

\* the boxes over a sequence of nodes: the width is the sum of the widths
BoxesOf(ns) ==
    {[Node(k, SumSeq([i \in 1..Len(ns) |-> ns[i].width]), 16, 0) EXCEPT !.contents = ns] :
        k \in {"HorizontalBox", "VerticalBox"}}
    \cup {[Node("Color", SumSeq([i \in 1..Len(ns) |-> ns[i].width]), 16, 0)
             EXCEPT !.contents = ns, !.color = c] : c \in {"red", "blue"}}

\* the trees of depth d: boxes of up to two leaves, and above them boxes of
\* at most one node
RECURSIVE TreesOf(_)
TreesOf(d) ==
    IF d = 0 THEN TreeLeaves
    ELSE TreesOf(d - 1)
         \cup UNION {BoxesOf(ns) : ns \in SeqsUpTo(TreesOf(d - 1), IF d = 1 THEN 2 ELSE 1)}

\* the contents of the layouts: one tree, or two trees of depth one
TreeLayouts ==
    {<<t>> : t \in TreesOf(TreeDepth)} \cup {<<>>}
    \cup {<<t, u>> : t \in TreesOf(1), u \in TreesOf(1)}

InitRender ==
    /\ \E c \in TreeLayouts :
          result = [st |-> "ok",
                    layout |-> [LayoutNew EXCEPT !.contents = c,
                                                 !.width = SumSeq([i \in 1..Len(c) |-> c[i].width]),
                                                 !.height = IF c = <<>> THEN 0 ELSE 16]]
    /\ scene = [st |-> "idle"]
    /\ nodes = <<>>
    /\ config = [ctx |-> FontContextNew, font_size |-> FontSize, style |-> "Display"]
    /\ idx = 1
    /\ prev = "Transparent"
    /\ layout = LayoutNew
    /\ last = NoStep
    /\ name = ""
    /\ found = [st |-> "idle"]

NextRender == Render

SpecRender == InitRender /\ [][NextRender]_vars

(***************************************************************************)
(* Properties                                                              *)
(***************************************************************************)
ScriptStyles == {s \in Styles : ~StyleGe(s, "TextCramped")}

\* the spacing table over every pair of atom types and every style
SpaceTableScript ==
    \A l \in AtomTypes, r \in AtomTypes, s \in ScriptStyles :
        /\ atom_space(l, r, s) \in {"None", "Thin"}
        /\ atom_space(l, r, s) = "Thin" => (IsOperator(l) \/ IsOperator(r))

SpaceTableTransparent ==
    \A r \in AtomTypes, s \in Styles : atom_space("Transparent", r, s) = "None"

\* the loop iteration last taken got as far as the spacing of its node
Spaced == last.current # ""

\* C8: in the styles below TextCramped atom_space gives only None or Thin, and
\* Thin only when the left or the right atom is an Operator; in no style is
\* there a spacing after a Transparent left atom.  This holds of the whole
\* table and of the spacing every iteration of the loop has inserted.
C8_ScriptSpacing ==
    /\ SpaceTableScript
    /\ SpaceTableTransparent
    /\ Spaced =>
          /\ last.sp = atom_space(last.lprev, last.current, last.style)
          /\ last.style \in ScriptStyles =>
                /\ last.sp \in {"None", "Thin"}
                /\ last.sp = "Thin" => (IsOperator(last.lprev) \/ IsOperator(last.current))
          /\ last.lprev = "Transparent" => last.sp = "None"

\* an iteration in a script style has put a Thin space before its node
C8_Witness ==
    /\ Spaced
    /\ last.style \in ScriptStyles
    /\ last.sp = "Thin"
    /\ last.idx > 1

\* the subscripts in a list of nodes, each as <<style of the scripts it belongs
\* to, "scripts" (side-set) or "limits", the subscript's box>>
RECURSIVE SubsOf(_, _, _)
SubsOf(seq, p, ptag) ==
    UNION {(IF seq[i].tag = "sub" THEN {<<p, ptag, seq[i]>>} ELSE {})
           \cup (IF seq[i].tag \in {"scripts", "limits"}
                 THEN SubsOf(seq[i].contents, seq[i].gstyle, seq[i].tag)
                 ELSE SubsOf(seq[i].contents, p, ptag)) : i \in DOMAIN seq}

\* C7: subscript_variant gives a cramped style for each of the eight styles, and
\* every subscript in the layout, side-set or a limit under an operator, was laid
\* out with subscript_variant of the style of the scripts it belongs to.
C7_SubscriptsCramped ==
    /\ \A s \in Styles : is_cramped(subscript_variant(s))
    /\ \A t \in SubsOf(layout.contents, "", "") :
          /\ t[1] \in Styles
          /\ t[3].gstyle = subscript_variant(t[1])
          /\ is_cramped(t[3].gstyle)

\* a side-set subscript of uncramped scripts that itself holds an operator with a
\* lower limit
C7_Witness ==
    \E t \in SubsOf(layout.contents, "", ""), u \in SubsOf(layout.contents, "", "") :
        /\ t[2] = "scripts" /\ ~is_cramped(t[1])
        /\ u[2] = "limits" /\ u[1] = t[3].gstyle

\* the atom types before which a Binary atom is kept, and after which it is not
CoercingPrev == {"Transparent", "Binary", "Relation", "Open", "Punctuation",
                 "OperatorT", "OperatorF"}
CoercingNext == {"Relation", "Close", "Punctuation"}

\* the type the i-th node of the top-level sequence is spaced as, by the rule as
\* it is stated: from the type its left sibling was spaced as and the type of
\* its right sibling
RECURSIVE RuleType(_, _)
RuleType(seq, i) ==
    LET p == IF i = 1 THEN "Transparent" ELSE RuleType(seq, i - 1)
        n == IF i < Len(seq) THEN atom_type(seq[i + 1]) ELSE "Transparent"
        t == atom_type(seq[i])
    IN  IF t = "Binary" /\ (p \in CoercingPrev \/ n \in CoercingNext) THEN "Alpha" ELSE t

\* the Medium kern of the Text and Display styles: 2/9 em
MediumKern == KernH((2 * FontSize) \div 9)

AlphaBinaryAlpha ==
    /\ Len(nodes) = 3
    /\ \A i \in 1..3 : nodes[i].kind = "Symbol"
    /\ <<atom_type(nodes[1]), atom_type(nodes[2]), atom_type(nodes[3])>>
           = <<"Alpha", "Binary", "Alpha">>
    /\ config.style \in {"Text", "Display"}
    /\ idx = 4

\* C5: a Binary node is spaced as Alpha exactly when the type its left sibling
\* was spaced as (Transparent at the start) is Transparent, Binary, Relation,
\* Open, Punctuation or an Operator, or the type of its right sibling
\* (parent_next at the end) is Relation, Close or Punctuation; any other node
\* keeps its type.  Alpha Binary Alpha in Text or Display style comes out as
\* glyph, Medium kern, glyph, Medium kern, glyph.
C5_Reclassification ==
    /\ Spaced =>
          /\ last.type = atom_type(nodes[last.idx])
          /\ last.lprev = (IF last.idx = 1 THEN "Transparent"
                           ELSE RuleType(nodes, last.idx - 1))
          /\ last.current = RuleType(nodes, last.idx)
          /\ prev = last.current
    /\ AlphaBinaryAlpha =>
          /\ [i \in 1..Len(layout.contents) |-> layout.contents[i].kind]
                 = <<"Glyph", "Kern", "Glyph", "Kern", "Glyph">>
          /\ layout.contents[2] = MediumKern
          /\ layout.contents[4] = MediumKern

\* Alpha Binary Alpha has been laid out in Text or Display style, the Binary
\* kept as it is
C5_Witness ==
    /\ AlphaBinaryAlpha
    /\ Spaced
    /\ Len(layout.contents) = 5
    /\ result.st = "ok"

\* the horizontal kerns that the iteration last taken put before its node
KernsEmitted ==
    SubSeq(layout.contents, Len(last.before.contents) + 1,
           Len(layout.contents) - Len(last.out))

\* the kern of a spacing in the Text and Display styles
KernsOf(sp) ==
    CASE sp = "None"   -> <<>>
      [] sp = "Thin"   -> <<KernH(FontSize \div 6)>>
      [] sp = "Medium" -> <<KernH((2 * FontSize) \div 9)>>
      [] sp = "Thick"  -> <<KernH(FontSize \div 3)>>

\* the node last laid out is a Binary atom of a Text or Display sequence
BinaryStep ==
    /\ Spaced
    /\ last.type = "Binary"
    /\ last.style \in {"Text", "Display"}

\* the node laid out before the last one was a Binary atom
AfterBinary ==
    /\ Spaced
    /\ last.idx > 1
    /\ atom_type(nodes[last.idx - 1]) = "Binary"
    /\ last.style \in {"Text", "Display"}

LeftType(i) == IF i = 1 THEN "none" ELSE atom_type(nodes[i - 1])
RightType(i) == IF i = Len(nodes) THEN "none" ELSE atom_type(nodes[i + 1])

\* the neighbours that are said to turn a Binary atom into an Alpha one
Adjacent == {"Binary", "Relation", "Open", "Punctuation", "OperatorT", "OperatorF"}

\* a Binary atom at the start or the end, or beside one of the Adjacent types
AtEdgeOrAdjacent(i) ==
    \/ i = 1
    \/ i = Len(nodes)
    \/ LeftType(i) \in Adjacent
    \/ RightType(i) \in Adjacent

\* a Binary atom at the start, or after an atom that was spaced as one of
\* CoercingPrev, or before a Relation, Close or Punctuation
Coerced(i) ==
    \/ i = 1
    \/ RuleType(nodes, i - 1) \in CoercingPrev
    \/ RightType(i) \in CoercingNext

\* the kern before the atom is that of an Alpha atom in its place
SpacedAsAlpha ==
    /\ last.sp = atom_space(last.lprev, "Alpha", last.style)
    /\ KernsEmitted = KernsOf(atom_space(last.lprev, "Alpha", last.style))

\* the kern after the atom, before the node last laid out, is that of an Alpha
\* atom in its place
FollowedAsAlpha ==
    /\ last.sp = atom_space("Alpha", last.current, last.style)
    /\ KernsEmitted = KernsOf(atom_space("Alpha", last.current, last.style))

\* C4 as stated: in Text or Display style a Binary atom that is first or last,
\* or has a Binary, Relation, Open, Punctuation or Operator on either side, gets
\* the kerns of an Alpha atom before and after it, none of them Medium.
C4_AsStated ==
    /\ (BinaryStep /\ AtEdgeOrAdjacent(last.idx)) => (SpacedAsAlpha /\ last.sp # "Medium")
    /\ (AfterBinary /\ AtEdgeOrAdjacent(last.idx - 1)) =>
           (FollowedAsAlpha /\ last.sp # "Medium")

\* C4: in Text or Display style a Binary atom that is first, or whose left
\* sibling was spaced as Transparent, Binary, Relation, Open, Punctuation or an
\* Operator, or whose right sibling is a Relation, Close or Punctuation, gets
\* the kerns of an Alpha atom before and after it.
C4_BinaryAsAlpha ==
    /\ (BinaryStep /\ Coerced(last.idx)) => SpacedAsAlpha
    /\ (AfterBinary /\ Coerced(last.idx - 1)) => FollowedAsAlpha

\* a Binary atom after a Relation has been given the Thick kern of an Alpha one
C4_Witness ==
    /\ BinaryStep
    /\ last.idx > 1
    /\ Coerced(last.idx)
    /\ SpacedAsAlpha
    /\ last.sp = "Thick"

\* every node of a list of nodes, with the nodes inside it
RECURSIVE NodesIn(_)
NodesIn(seq) == UNION {{seq[i]} \cup NodesIn(seq[i].contents) : i \in DOMAIN seq}

\* the boxes of the layout built so far
Boxes(kind) == {n \in NodesIn(layout.contents) : n.kind = kind}

Heights(n) == [i \in 1..Len(n.contents) |-> n.contents[i].height]
LastDepth(n) == IF n.contents = <<>> THEN 0 ELSE n.contents[Len(n.contents)].depth

\* C2: the height of every VerticalBox is the sum of the heights of its
\* children less its offset, and its depth is the depth of its last child (0
\* when it has none) less its offset; so it is for the glyphs and the built-up
\* variants that LayoutNode::centered has moved onto the axis.
C2_VerticalBox ==
    \A n \in Boxes("VerticalBox") :
        /\ n.height = SumSeq(Heights(n)) - n.offset
        /\ n.depth = LastDepth(n) - n.offset

\* a delimiter built from several parts and moved onto the axis, and a single
\* glyph that was moved onto the axis
C2_Witness ==
    /\ \E n \in Boxes("VerticalBox") :
          n.tag = "delimiter" /\ Len(n.contents) > 1 /\ n.offset # 0
    /\ \E n \in Boxes("VerticalBox") :
          n.tag = "delimiter" /\ Len(n.contents) = 1 /\ n.contents[1].kind = "Glyph"
          /\ n.offset # 0

\* the horizontal boxes of the layout built so far, the layout itself among them
HBoxes == {as_node(layout)} \cup Boxes("HorizontalBox")

Widths(n) == [i \in 1..Len(n.contents) |-> n.contents[i].width]
ChildHeights(n) == {n.contents[i].height : i \in DOMAIN n.contents}
ChildDepths(n) == {n.contents[i].depth : i \in DOMAIN n.contents}
Greatest(S) == CHOOSE m \in S : \A x \in S : x <= m
Least(S) == CHOOSE m \in S : \A x \in S : m <= x

\* C1 as stated: the width of every HorizontalBox is the sum of the widths of
\* its children, its height the greatest of their heights and its depth the
\* least of their depths (a box without children has none of the three).
C1_AsStated ==
    \A n \in HBoxes :
        /\ n.width = SumSeq(Widths(n))
        /\ n.contents # <<>> =>
              /\ n.height = Greatest(ChildHeights(n))
              /\ n.depth = Least(ChildDepths(n))

\* C1: the height of every HorizontalBox is the greatest of 0 and its
\* children's heights, its depth the least of 0 and their depths, each less the
\* box's offset; its width is the sum of its children's widths unless the box is
\* Centered(w), when it is the width the box was centred in, which is at least w.
C1_HorizontalBox ==
    \A n \in HBoxes :
        /\ n.height = Greatest(ChildHeights(n) \cup {0}) - n.offset
        /\ n.depth = Least(ChildDepths(n) \cup {0}) - n.offset
        /\ n.align # "Centered" => n.width = SumSeq(Widths(n))
        /\ n.align = "Centered" => n.width >= n.alignw

\* the narrower part of a fraction, centred in the width of the wider part
C1_Witness ==
    \E n \in HBoxes :
        /\ n.tag \in {"numer", "denom"}
        /\ n.align = "Centered"
        /\ n.contents # <<>>
        /\ n.width > SumSeq(Widths(n))
        /\ n.height = Greatest(ChildHeights(n))

\* a symbol that the font has no glyph for
NoGlyph(sym) == sym.codepoint \notin DOMAIN Cmap

\* laying the node out looks up a glyph that the font does not have; with
\* inBase the symbols that are laid out as the base of a Scripts node are
\* counted, without it they are not
RECURSIVE LooksUpMissing(_, _)
LooksUpMissing(n, inBase) ==
    LET AnyOf(seq) == \E i \in DOMAIN seq : LooksUpMissing(seq[i], inBase)
        Opt(o) == o # None /\ NoGlyph(o[1])
    IN  CASE n.kind = "Symbol"      -> NoGlyph(n)
          [] n.kind = "Scripts"     ->
               \/ inBase /\ n.base # None /\ LooksUpMissing(n.base[1], inBase)
               \/ n.superscript # None /\ AnyOf(n.superscript[1])
               \/ n.subscript # None /\ AnyOf(n.subscript[1])
          [] n.kind \in {"Radical", "Group", "AtomChange", "Color"} -> AnyOf(n.inner)
          [] n.kind = "Delimited"   -> NoGlyph(n.left) \/ NoGlyph(n.right) \/ AnyOf(n.inner)
          [] n.kind = "GenFraction" ->
               \/ AnyOf(n.numerator) \/ AnyOf(n.denominator)
               \/ Opt(n.left_delimiter) \/ Opt(n.right_delimiter)
          [] n.kind = "Accent"      -> NoGlyph(n.symbol) \/ AnyOf(n.nucleus)
          [] n.kind = "Stack"       ->
               \E i \in DOMAIN n.lines : AnyOf(n.lines[i])
          [] n.kind = "Array"       ->
               \/ \E i \in DOMAIN n.rows : \E j \in DOMAIN n.rows[i] : AnyOf(n.rows[i][j])
               \/ Opt(n.left_delimiter) \/ Opt(n.right_delimiter)
          [] OTHER                  -> FALSE

\* C3 as stated: when a glyph lookup fails, be it for the base of a Scripts
\* node, layout does not return Ok.
C3_AsStated ==
    result.st = "ok" => \A i \in DOMAIN nodes : ~LooksUpMissing(nodes[i], TRUE)

\* outside the bases of Scripts nodes a failed lookup is returned as the error
C3_OutsideBase ==
    result.st = "ok" => \A i \in DOMAIN nodes : ~LooksUpMissing(nodes[i], FALSE)

\* layout has returned Ok for a Scripts node whose base is a symbol that the
\* font has no glyph for
C3_Witness ==
    /\ result.st = "ok"
    /\ \E i \in DOMAIN nodes :
          /\ nodes[i].kind = "Scripts"
          /\ nodes[i].base # None
          /\ nodes[i].base[1].kind = "Symbol"
          /\ NoGlyph(nodes[i].base[1])

\* the delimiter symbols of a node: Delimited has the two symbols themselves,
\* GenFraction and Array have optional ones
LeftDot(n) ==
    IF n.kind = "Delimited" THEN n.left.codepoint = "."
    ELSE n.left_delimiter # None /\ n.left_delimiter[1].codepoint = "."
RightDot(n) ==
    IF n.kind = "Delimited" THEN n.right.codepoint = "."
    ELSE n.right_delimiter # None /\ n.right_delimiter[1].codepoint = "."

\* what the node last laid out put around its content: an Array encloses the
\* content and its delimiters in one box
Enclosure == IF last.kind = "Array" THEN last.out[1].contents ELSE last.out

\* the kern that stands for no delimiter: null_delimiter_space * font_size
NullDelimiterKern == KernH(FontSize \div 10)

\* the glyphs of the '.' symbol among the nodes last laid out
DotGlyphs == {g \in NodesIn(last.out) : g.kind = "Glyph" /\ g.gid = Cmap["."]}

\* the node last laid out is one of the given kinds and has produced something
Enclosed(kinds) == Spaced /\ last.kind \in kinds /\ last.out # <<>>

\* a '.' delimiter of a node of the given kinds comes out as the null delimiter
\* kern, and no glyph is made for it
DotIsNull(kinds) ==
    /\ (Enclosed(kinds) /\ LeftDot(nodes[last.idx])) =>
           (Enclosure[1] = NullDelimiterKern /\ DotGlyphs = {})
    /\ (Enclosed(kinds) /\ RightDot(nodes[last.idx])) =>
           (Enclosure[Len(Enclosure)] = NullDelimiterKern /\ DotGlyphs = {})

\* C6 as stated: in Delimited, GenFraction and Array alike a delimiter whose
\* codepoint is '.' comes out as a horizontal kern of null_delimiter_space times
\* font_size, and no glyph is looked up for it.
C6_AsStated == DotIsNull({"Delimited", "GenFraction", "Array"})

\* Delimited does replace the '.' delimiter by the kern
C6_Delimited == DotIsNull({"Delimited"})

\* a fraction with the '.' symbol as its left delimiter has been laid out with
\* the glyph of '.' on its left
C6_Witness ==
    /\ Enclosed({"GenFraction"})
    /\ LeftDot(nodes[last.idx])
    /\ Enclosure[1] # NullDelimiterKern
    /\ DotGlyphs # {}

\* the boxes of the layout built so far that carry the given tag
Tagged(tag) == {n \in NodesIn(layout.contents) : n.tag = tag}

\* a style of display size, cramped or not
DisplaySize(s) == cramped(s) = "DisplayCramped"

\* the gap above the radicand that goes with the size of a style
GapOfSize(s) ==
    IF DisplaySize(s)
    THEN scaled_em(MathConstants.radical_display_style_vertical_gap,
                   [config EXCEPT !.style = s])
    ELSE scaled_em(MathConstants.radical_vertical_gap, [config EXCEPT !.style = s])

\* the tests `style > Text` of frac and `style >= TextCramped` of atom_space come
\* out alike for a style and its cramped form
C9_FracAndSpacing ==
    /\ \A n \in Tagged("frac") : n.obs.display = DisplaySize(n.gstyle)
    /\ Spaced => last.sp = atom_space(last.lprev, last.current, cramped(last.style))

\* C9 as stated: each test that the engine makes on the size of the style comes
\* out alike for a style and its cramped form, so that a radical in
\* DisplayCramped gets the display-style gap that a radical in Display gets.
C9_AsStated ==
    /\ C9_FracAndSpacing
    /\ \A n \in Tagged("radical") : n.obs.gap0 = GapOfSize(n.gstyle)

\* a radical has been laid out in DisplayCramped with the gap of the text styles
C9_Witness ==
    \E n \in Tagged("radical") :
        /\ n.gstyle = "DisplayCramped"
        /\ n.obs.gap0 = scaled_em(MathConstants.radical_vertical_gap, config)
        /\ n.obs.gap0 # GapOfSize("Display")

\* the side-set scripts of the layout built so far that have both a superscript
\* and a subscript: the box holds the superscript, a kern and the subscript
BothScripts == {n \in Tagged("scripts") : n.obs.has_sup /\ n.obs.has_sub}

\* sub_superscript_gap_min, scaled for the style the scripts were laid out in
GapMin(n) == scaled_em(MathConstants.sub_superscript_gap_min, [config EXCEPT !.style = n.gstyle])

\* the final shifts, read off the box: adjust_down is its offset, and the kern
\* is adjust_up - sub.height + adjust_down
AdjustDown(n) == n.offset
AdjustUp(n) == n.contents[2].height + n.contents[3].height - n.offset

\* the gap between the bottom of the superscript and the top of the subscript
\* under the shifts up and down
GapUnder(n, up, down) == (up + n.contents[1].depth) - (n.contents[3].height - down)

\* C10: with both scripts beside a base that takes no limits, the final shifts
\* leave at least sub_superscript_gap_min between the bottom of the superscript
\* and the top of the subscript; when the first shifts leave less, both are
\* raised by the same amount and the gap is the minimum exactly; and the kern
\* between the two scripts is at least the minimum when the superscript's
\* depth is not positive.
C10_ScriptsGap ==
    \A n \in BothScripts :
        /\ GapUnder(n, AdjustUp(n), AdjustDown(n)) >= GapMin(n)
        /\ GapUnder(n, n.obs.up1, n.obs.down1) < GapMin(n) =>
              /\ AdjustUp(n) - n.obs.up1 = AdjustDown(n) - n.obs.down1
              /\ AdjustUp(n) > n.obs.up1
              /\ GapUnder(n, AdjustUp(n), AdjustDown(n)) = GapMin(n)
        /\ n.contents[1].depth <= 0 => n.contents[2].height >= GapMin(n)

\* scripts whose first shifts left less than the minimum, the superscript not
\* reaching below its own baseline
C10_Witness ==
    \E n \in BothScripts :
        /\ GapUnder(n, n.obs.up1, n.obs.down1) < GapMin(n)
        /\ n.contents[1].depth <= 0
        /\ n.contents[2].kind = "Kern"

\* the width of a box's contents: the sum of the widths of its children
Intrinsic(b) == SumSeq(Widths(b))

\* the thickness that frac selects for the bar of the fraction last laid out
SelectedBar ==
    FracBar(nodes[last.idx], FracConfig(nodes[last.idx], [config EXCEPT !.style = last.style]))

\* the fraction last laid out at the top level: frac has added a delimiter (or
\* the null delimiter kern), the box of the fraction and another delimiter
FracLaidOut == Spaced /\ last.kind = "GenFraction"

\* C11: frac emits a VerticalBox of five children, the numerator, a kern, a
\* rule, a kern and the denominator; the numerator and the denominator have the
\* width of the wider of the two, the narrower one being Centered(its own
\* width); the rule has that width and the height of the selected bar
\* thickness, 0 when bar_thickness is None.
C11_FracBox ==
    /\ \A n \in Tagged("frac") :
          /\ n.kind = "VerticalBox"
          /\ Len(n.contents) = 5
          /\ [i \in 1..5 |-> n.contents[i].kind]
                = <<"HorizontalBox", "Kern", "Rule", "Kern", "HorizontalBox">>
          /\ n.contents[1].tag = "numer" /\ n.contents[5].tag = "denom"
          /\ LET numer == n.contents[1]
                 denom == n.contents[5]
                 rule == n.contents[3]
                 common == Max2(Intrinsic(numer), Intrinsic(denom))
             IN  /\ numer.width = common
                 /\ denom.width = common
                 /\ Intrinsic(numer) < common =>
                       numer.align = "Centered" /\ numer.alignw = Intrinsic(numer)
                 /\ Intrinsic(denom) < common =>
                       denom.align = "Centered" /\ denom.alignw = Intrinsic(denom)
                 /\ rule.width = common
                 /\ rule.height = n.obs.bar
    /\ FracLaidOut =>
          /\ Len(last.out) = 3
          /\ last.out[2].tag = "frac"
          /\ last.out[2].contents[3].height = SelectedBar
          /\ nodes[last.idx].bar_thickness.kind = "None" =>
                last.out[2].contents[3].height = 0

\* a fraction without a bar whose numerator is the narrower part: the rule
\* has no height and the width of the denominator
C11_Witness ==
    /\ FracLaidOut
    /\ nodes[last.idx].bar_thickness.kind = "None"
    /\ Intrinsic(last.out[2].contents[1]) < Intrinsic(last.out[2].contents[5])
    /\ last.out[2].contents[1].align = "Centered"
    /\ last.out[2].contents[3].height = 0
    /\ last.out[2].contents[3].width = Intrinsic(last.out[2].contents[5])

\* the settings that the fraction last laid out was laid out under
FracSettings == FracConfig(nodes[last.idx], [config EXCEPT !.style = last.style])

\* the delimiters of the fraction last laid out: the nodes that frac has put
\* before and after the box of the fraction, when they are not the null kern
FracDelimiters ==
    IF FracLaidOut THEN {d \in {last.out[1], last.out[3]} : d.tag = "delimiter"} ELSE {}

\* the size that delimited asks of vert_variant for an inner box of the
\* dimensions of the fraction last laid out
AsDelimitedAsks ==
    to_font(DelimitedClearance(last.out[2].height, last.out[2].depth,
                               EmPx(MathConstants.axis_height, FracSettings),
                               FracSettings), FracSettings)

\* the size that frac asks: twice the greater distance from the axis, or
\* delimited_sub_formula_min_height when that is more
AsFracAsks ==
    to_font(Max2(Max2(last.out[2].height - EmPx(MathConstants.axis_height, FracSettings),
                      EmPx(MathConstants.axis_height, FracSettings) - last.out[2].depth) * 2,
                 EmPx(MathConstants.delimited_sub_formula_min_height, FracSettings)),
            FracSettings)

\* C12 as stated: the size that frac asks of vert_variant for a delimiter of a
\* fraction is the size that delimited asks for an inner box of the same
\* height and depth, with the same axis and font size.
C12_AsStated == \A d \in FracDelimiters : d.obs.clearance = AsDelimitedAsks

\* frac asks for its own size, without delimiter_factor and delimiter_short_fall
C12_FracClearance == \A d \in FracDelimiters : d.obs.clearance = AsFracAsks

\* a fraction between delimiters for which frac has asked for another size than
\* delimited asks for
C12_Witness ==
    /\ FracLaidOut
    /\ nodes[last.idx].left_delimiter = Some(sym_open)
    /\ last.out[1].tag = "delimiter"
    /\ last.out[1].obs.clearance = AsFracAsks
    /\ last.out[1].obs.clearance # AsDelimitedAsks

\* a Stack without lines, an Array without columns: no rows, or empty rows only
IsEmpty(node) ==
    \/ node.kind = "Stack" /\ node.lines = <<>>
    \/ node.kind = "Array" /\ \A r \in DOMAIN node.rows : node.rows[r] = <<>>

\* the loop has just handled an empty Stack or an empty Array
EmptyHandled == last.kind \in {"Stack", "Array"} /\ IsEmpty(nodes[last.idx])

\* the glyphs and the rules among the nodes and inside them
Inked(seq) == {n \in NodesIn(seq) : n.kind \in {"Glyph", "Rule"}}

\* C13: a Stack with no lines and an Array with no columns, with delimiters or
\* without, are handled without error: the handler returns Ok and adds nothing,
\* so no glyph and no rule joins the output, and no glyph is looked up, not even
\* for a delimiter that the font does not have.
C13_EmptyHandled ==
    EmptyHandled =>
        /\ result.st # "err"
        /\ Spaced
        /\ last.out = <<>>
        /\ Inked(layout.contents) = Inked(last.before.contents)
        /\ layout.width = last.before.width + SpacingLength(last.sp, config)

\* an Array of one empty row between a delimiter that the font has no glyph for
\* and a delimiter that it has, handled after a symbol
C13_Witness ==
    /\ EmptyHandled
    /\ last.idx = 2
    /\ nodes[2].kind = "Array"
    /\ nodes[2].rows = << <<>> >>
    /\ nodes[2].left_delimiter = Some(sym_missing)
    /\ nodes[2].right_delimiter = Some(sym_close)
    /\ result.st = "none"
    /\ Inked(layout.contents) # {}

\* the settings that layout was called with: a Style node changes the style
\* for the nodes after it, and the layout keeps the style it was begun under
InitialSettings == [config EXCEPT !.style = layout.gstyle]

\* another run of layout on the same nodes, the same font and the same settings
SecondRun == layout_(nodes, InitialSettings)

ColorKeys == {COLOR_MAP[i][1] : i \in DOMAIN COLOR_MAP}
StoredWith(key) == COLOR_MAP[CHOOSE i \in DOMAIN COLOR_MAP : COLOR_MAP[i][1] = key][2]

\* from_name has returned
Returned == found.st = "done"

\* C15 as stated: for every name that is a key of COLOR_MAP ("black", "white",
\* "red", "phantom" and "transparent" among them) from_name returns Some of the
\* colour stored with that key, and for every other name it returns None.
C15_AsStated ==
    Returned =>
        /\ name \in ColorKeys => found.val = Some(StoredWith(name))
        /\ name \notin ColorKeys => found.val = None

\* what from_name does keep: a name that is not a key gets None, and a colour
\* that is returned is the colour stored with the name
C15_NeverWrong ==
    Returned =>
        /\ name \notin ColorKeys => found.val = None
        /\ found.val # None => found.val = Some(StoredWith(name))

\* from_name has returned None for "black", the first key of COLOR_MAP
C15_Witness ==
    /\ Returned
    /\ name = "black"
    /\ COLOR_MAP[1][1] = "black"
    /\ found.val = None

\* the glyphs inside the layout built so far all have height >= 0 and depth <= 0
GlyphsSane ==
    \A g \in NodesIn(layout.contents) : g.kind = "Glyph" => (g.height >= 0 /\ g.depth <= 0)

\* the font's constants are none of them negative
ConstantsSane == \A c \in DOMAIN config.ctx.constants : config.ctx.constants[c] >= 0

\* a box that reaches from its baseline up and down: height >= 0 and depth <= 0
Upright(n) == n.height >= 0 /\ n.depth <= 0

\* C16 as stated: with glyphs of height >= 0 and depth <= 0 and font constants
\* that are not negative, every HorizontalBox and every VerticalBox of the
\* layout has height >= 0 and depth <= 0, the VerticalBoxes with an offset too.
C16_AsStated ==
    (GlyphsSane /\ ConstantsSane) =>
        \A n \in HBoxes \cup Boxes("VerticalBox") : Upright(n)

\* C16: every HorizontalBox has height >= 0 and depth <= 0, whatever the glyphs,
\* and so has the VerticalBox that frac builds with its offset when the font's
\* constants are not negative; the other VerticalBoxes that are built with an
\* offset need not.
C16_Boxes ==
    /\ \A n \in HBoxes : Upright(n)
    /\ ConstantsSane => \A n \in Tagged("frac") : Upright(n)

\* a fraction built with an offset, over glyphs of height >= 0 and depth <= 0,
\* that holds the box of a subscript whose depth or height has the other sign
C16_Witness ==
    /\ GlyphsSane /\ ConstantsSane
    /\ \E n \in Tagged("frac") : n.offset > 0 /\ Upright(n)
    /\ \E m \in Tagged("scripts") : m.kind = "VerticalBox" /\ m.offset # 0 /\ ~Upright(m)

\* the run of layout on the same nodes under the cramped form of the style
CrampedRun == layout_(nodes, [InitialSettings EXCEPT !.style = cramped(InitialSettings.style)])

Abs(x) == IF x >= 0 THEN x ELSE -x

\* |superscript_shift_up - superscript_shift_up_cramped|, scaled to px for the style
ShiftUpDifference ==
    Abs(scaled_em(MathConstants.superscript_shift_up, InitialSettings)
        - scaled_em(MathConstants.superscript_shift_up_cramped, InitialSettings))

\* layout has returned a layout under the style and under its cramped form
BothLaidOut == result.st = "ok" /\ CrampedRun.ok

\* C17 as stated: for every node sequence and every style s, the layout under
\* s.cramped() differs from the layout under s by at most
\* |superscript_shift_up - superscript_shift_up_cramped| in width and in height.
C17_AsStated ==
    BothLaidOut =>
        /\ Abs(CrampedRun.val.width - result.layout.width) <= ShiftUpDifference
        /\ Abs(CrampedRun.val.height - result.layout.height) <= ShiftUpDifference

\* the height of a superscript that has a superscript of its own differs by more
C17_Nested ==
    /\ BothLaidOut
    /\ nodes = <<sup_sup>>
    /\ InitialSettings.style = "Display"
    /\ result.layout.height - CrampedRun.val.height > ShiftUpDifference

\* a list of symbols
Symbols(seq) == \A i \in DOMAIN seq : seq[i].kind = "Symbol"

\* a symbol, or scripts of symbols beside a symbol: nothing in it is laid out
\* under a style of its own that a cramped style would change again
OneLevel(node) ==
    \/ node.kind = "Symbol"
    \/ /\ node.kind = "Scripts"
       /\ node.base # None => node.base[1].kind = "Symbol"
       /\ node.superscript # None => Symbols(node.superscript[1])
       /\ node.subscript # None => Symbols(node.subscript[1])

\* C17: for a sequence of symbols and of scripts of symbols beside a symbol,
\* the height of the layout under s.cramped() is at most the height of the
\* layout under s and less by at most
\* |superscript_shift_up - superscript_shift_up_cramped| scaled to px.
C17_OneLevel ==
    (BothLaidOut /\ \A i \in DOMAIN nodes : OneLevel(nodes[i])) =>
        /\ CrampedRun.val.height <= result.layout.height
        /\ result.layout.height - CrampedRun.val.height <= ShiftUpDifference

\* a superscript beside a symbol, lower by the whole difference when cramped
C17_Witness ==
    /\ BothLaidOut
    /\ nodes = <<Scripts(Some(sym_a), Some(<<sym_a>>), None)>>
    /\ InitialSettings.style = "Text"
    /\ ShiftUpDifference > 0
    /\ result.layout.height - CrampedRun.val.height = ShiftUpDifference

\* the iteration just run was on a Style node
StyleHandled == result.st = "none" /\ last.kind = "Style"

\* the layout is, in contents and dimensions, what it was before the iteration
OutputUnchanged ==
    /\ layout.contents = last.before.contents
    /\ layout.width = last.before.width
    /\ layout.height = last.before.height
    /\ layout.depth = last.before.depth

\* C18 (as stated): handling a Style node leaves the layout's contents, width,
\* height and depth exactly as they were, whatever the preceding atom and the
\* current style; only the style for the later siblings changes.
C18_AsStated ==
    StyleHandled =>
        /\ OutputUnchanged
        /\ config = [ctx |-> config.ctx, font_size |-> config.font_size,
                     style |-> nodes[last.idx].style]

\* C18 (what the code does): a Style node is a Transparent atom that goes
\* through atom_space like any other; the layout is unchanged exactly when no
\* spacing was asked, and otherwise gains the one spacing kern, which happens
\* only after an Inner or a Punctuation atom in a text or display style.
C18_StyleSpacing ==
    StyleHandled =>
        /\ last.current = "Transparent" /\ prev = "Transparent"
        /\ config.style = nodes[last.idx].style
        /\ (last.sp = "None") = OutputUnchanged
        /\ last.sp # "None" =>
              /\ last.sp = "Thin"
              /\ last.lprev \in {"Inner", "Punctuation"}
              /\ StyleGe(last.style, "TextCramped")
              /\ Len(layout.contents) = Len(last.before.contents) + 1
              /\ layout.contents[Len(layout.contents)].kind = "Kern"
              /\ layout.width > last.before.width

\* C18 witness: a Style node handled after an Inner or Punctuation atom, in a
\* style where the pair is spaced
C18_Witness ==
    /\ StyleHandled
    /\ last.lprev \in {"Inner", "Punctuation"}
    /\ StyleGe(last.style, "TextCramped")
    /\ ~OutputUnchanged

\* fonts that differ from the model's font in the MATH table's own
\* subscript_shift_down and in its subscript_top_max
ShiftDowns == {0, 40, 64, 200}
TopMaxes == {32, 64}
FontsLike(math) ==
    {[math EXCEPT !.subscript_shift_down = v, !.subscript_top_max = t] :
        v \in ShiftDowns, t \in TopMaxes}

\* the settings of the iteration just run, with the constants of another font
WithFont(math) ==
    [config EXCEPT !.style = last.style, !.ctx.constants = ConstantsNew(math)]

\* the side-set scripts of the layout built so far that have a subscript
SubScripts == {n \in Tagged("scripts") : n.obs.has_sub}

\* the subscript in a scripts box is its last node
SubOf(n) == n.contents[Len(n.contents)]

\* subscript_top_max of the model's font, scaled for the style that the
\* scripts were laid out in
TopMax(n) == scaled_em(MathConstants.subscript_top_max, [config EXCEPT !.style = n.gstyle])

\* C19: Constants::new takes subscript_shift_down from the font's
\* subscript_top_max, whatever the font's own subscript_shift_down, so the two
\* constants are equal; in scripts the first shift down is at least
\* subscript_top_max and at least sub.height - subscript_top_max (both scaled),
\* and a Scripts node lays out alike under fonts that differ only in their
\* own subscript_shift_down.
C19_ShiftDown ==
    /\ \A math \in FontsLike(MathConstants) :
          /\ ConstantsNew(math).subscript_shift_down = math.subscript_top_max
          /\ ConstantsNew(math).subscript_top_max = math.subscript_top_max
          /\ ConstantsNew(math) =
                ConstantsNew([math EXCEPT !.subscript_shift_down = 40])
    /\ config.ctx.constants.subscript_shift_down = config.ctx.constants.subscript_top_max
    /\ \A n \in SubScripts :
          /\ n.obs.down1 >= TopMax(n)
          /\ n.obs.down1 >= SubOf(n).height - TopMax(n)
    /\ (result.st = "none" /\ last.kind = "Scripts") =>
          \A v \in ShiftDowns :
              LET r == dispatch(WithFont([MathConstants EXCEPT !.subscript_shift_down = v]),
                                nodes[last.idx], last.next)
              IN  r.ok /\ r.val = last.out

\* C19 witness: side-set scripts whose first shift down is subscript_top_max
\* itself, which the font's own subscript_shift_down would not have given
C19_Witness ==
    \E n \in SubScripts :
        /\ n.obs.down1 = TopMax(n)
        /\ n.obs.down1 > SubOf(n).height - TopMax(n)
        /\ n.obs.down1 # scaled_em(MathConstants.subscript_shift_down,
                                   [config EXCEPT !.style = n.gstyle])
        /\ AdjustDown(n) = n.obs.down1

\* where the parts of a fraction's box lie above its baseline: the box is
\* stacked downwards from its top, each node taking its height
TopOf(n, i) == n.height - SumSeq([j \in 1..(i - 1) |-> n.contents[j].height])
BottomOf(n, i) == TopOf(n, i) - n.contents[i].height

\* C20: the VerticalBox that frac builds has height numer.height + kern_num +
\* bar/2 + axis, whatever the numerator, the denominator and the bar, so the
\* rule (its third node) has its top edge axis + bar/2 and its bottom edge
\* axis - bar/2 above the baseline of the box: it is centred on the math axis.
C20_RuleOnAxis ==
    \A n \in Tagged("frac") :
        /\ Len(n.contents) = 5 /\ n.contents[3].kind = "Rule"
        /\ n.contents[2].height = n.obs.kern_num
        /\ n.contents[3].height = n.obs.bar
        /\ 2 * n.height = 2 * n.contents[1].height + 2 * n.obs.kern_num + n.obs.bar
                          + 2 * n.obs.axis
        /\ 2 * TopOf(n, 3) = 2 * n.obs.axis + n.obs.bar
        /\ 2 * BottomOf(n, 3) = 2 * n.obs.axis - n.obs.bar
        /\ n.offset = n.contents[5].height + n.obs.kern_den + Half(n.obs.bar) - n.obs.axis

\* C20 witness: a fraction with a bar of its own thickness, whose numerator and
\* denominator differ in height, and whose numerator kern was set by the gap
C20_Witness ==
    \E n \in Tagged("frac") :
        /\ n.obs.bar > 0
        /\ n.obs.bar # scaled_em(MathConstants.fraction_rule_thickness,
                                 [config EXCEPT !.style = n.gstyle])
        /\ n.contents[1].height # n.contents[5].height
        /\ n.contents[1].depth < 0
        /\ TopOf(n, 3) - BottomOf(n, 3) = n.obs.bar

\* the boxes that operator_limits has put in the layout built so far
Limits == Tagged("limits")

\* the settings that a tagged box was laid out under
SettingsOf(n) == [config EXCEPT !.style = n.gstyle]

\* C21: the VerticalBox of operator_limits has five children (superscript box,
\* kern, base, kern, subscript box); its height is sup.height + sup_kern +
\* base.height, and what is stacked below the base, sub_kern and the subscript
\* box, is its offset sub.height + sub_kern, so the bottom of the base is on
\* the baseline of the box;
\* the three boxes have the width max(base.width, sub.width + delta/2,
\* sup.width + delta/2).
C21_Limits ==
    \A n \in Limits :
        /\ Len(n.contents) = 5
        /\ \A i \in {1, 3, 5} : n.contents[i].kind = "HorizontalBox"
        /\ \A i \in {2, 4} : n.contents[i].kind = "Kern"
        /\ n.contents[2].height =
              Max2(scaled_em(MathConstants.upper_limit_baseline_rise_min, SettingsOf(n)),
                   scaled_em(MathConstants.upper_limit_gap_min, SettingsOf(n))
                   - n.contents[1].depth)
        /\ n.contents[1].height = n.obs.sup_height
        /\ n.contents[3].height = n.obs.base_height
        /\ n.contents[5].height = n.obs.sub_height
        /\ n.height = n.contents[1].height + n.contents[2].height + n.contents[3].height
        /\ n.offset = n.contents[5].height + n.contents[4].height
        /\ BottomOf(n, 3) = 0
        /\ BottomOf(n, 5) = - n.offset
        /\ \A i \in {1, 3, 5} :
              n.contents[i].width = Max3(n.obs.base_width,
                                         n.obs.sub_width + Half(n.obs.delta),
                                         n.obs.sup_width + Half(n.obs.delta))
        /\ n.width = n.contents[3].width

\* C21 witness: limits above and below an operator that is narrower than its
\* subscript, with an italic correction
C21_Witness ==
    \E n \in Limits :
        /\ n.obs.sup_height > 0 /\ n.obs.sub_height > 0
        /\ n.obs.base_width < n.obs.sub_width + Half(n.obs.delta)
        /\ n.obs.delta > 0
        /\ n.offset > 0

\* the node sequences of the layout built so far: its own contents and the
\* contents of every box in it
SeqsIn == {layout.contents} \cup {n.contents : n \in NodesIn(layout.contents)}

\* the places where a radical's box stands in a sequence
RadicalsAt == {<<q, i>> \in SeqsIn \X (1..8) : i <= Len(q) /\ q[i].tag = "radical"}

\* a radical's box is [kern, rule, kern, contents], the rule as wide as the
\* contents and radical_rule_thickness high, the gap at least the font's
RadicalBox(b) ==
    /\ b.kind = "VerticalBox" /\ Len(b.contents) = 4 /\ b.offset = 0
    /\ b.contents[1].kind = "Kern" /\ b.contents[2].kind = "Rule"
    /\ b.contents[3].kind = "Kern" /\ b.contents[4].kind = "HorizontalBox"
    /\ b.contents[2].width = b.contents[4].width
    /\ b.contents[2].height = scaled_em(MathConstants.radical_rule_thickness, SettingsOf(b))
    /\ b.contents[3].height >= scaled_em(MathConstants.radical_vertical_gap, SettingsOf(b))
    /\ b.contents[3].height >= b.obs.gap0

\* the box of the radical sign before a radical's box: one node, and as high
\* as rule, gap and contents together, which is where the rule's top edge is
SignBox(sg, b) ==
    /\ sg.kind = "VerticalBox" /\ sg.tag = "sqrt" /\ Len(sg.contents) = 1
    /\ sg.contents[1].kind \in {"Glyph", "VerticalBox"}
    /\ sg.offset = sg.contents[1].height - sg.height
    /\ sg.height = b.contents[2].height + b.contents[3].height + b.contents[4].height
    /\ sg.height = TopOf(b, 2)

\* C22: radical emits two nodes, the radical sign in a VerticalBox with an
\* offset and then the VerticalBox [kern, rule, kern, contents]; whatever
\* variant the font returned, the first box has the height rule_thickness +
\* gap + contents.height, the top edge of the rule, with gap at least the
\* font's radical gap; the rule is as wide as the contents and has the scaled
\* radical_rule_thickness.
C22_Radical ==
    /\ \A p \in RadicalsAt :
          /\ p[2] > 1
          /\ RadicalBox(p[1][p[2]])
          /\ SignBox(p[1][p[2] - 1], p[1][p[2]])
    /\ (result.st = "none" /\ last.kind = "Radical") =>
          /\ Len(last.out) = 2
          /\ last.out[2].tag = "radical"

\* C22 witness: a radical at the top level whose sign is a variant larger
\* than asked, so that the gap is more than the font's and the box of the
\* sign has an offset
C22_Witness ==
    /\ result.st = "none" /\ last.kind = "Radical"
    /\ last.out[2].obs.gap > last.out[2].obs.gap0
    /\ last.out[1].offset # 0
    /\ last.out[2].contents[4].width > 0

\* the boxes that substack has put in the layout built so far
Stacks == Tagged("stack")

\* the lines of a stack's box are its odd children, the kerns its even ones
LinesOf(n) == {i \in 1..Len(n.contents) : i % 2 = 1}
GapsOf(n) == {i \in 1..Len(n.contents) : i % 2 = 0}

\* the width that a line was laid out with: a line that substack re-aligned
\* is Centered on the width it had
OwnWidth(b) == IF b.align = "Centered" THEN b.alignw ELSE b.width

\* the width of the widest line of a stack
WidestLine(n) ==
    CHOOSE w \in {OwnWidth(n.contents[i]) : i \in LinesOf(n)} :
        \A i \in LinesOf(n) : OwnWidth(n.contents[i]) <= w

\* a stack's box alternates line and kern and ends with a kern, and each kern
\* is max(gap_min, gap_try - depth of the line before it)
StackShape(n) ==
    /\ Len(n.contents) >= 2 /\ Len(n.contents) % 2 = 0
    /\ \A i \in LinesOf(n) : n.contents[i].kind = "HorizontalBox"
    /\ \A i \in GapsOf(n) :
          /\ n.contents[i].kind = "Kern"
          /\ n.contents[i].height =
                Max2(StackGapMin(SettingsOf(n)),
                     StackGapTry(SettingsOf(n)) - n.contents[i - 1].depth)

\* C23 (as stated): for a Stack of n >= 1 lines substack builds a VerticalBox
\* of 2n children, line and kern in turn with a kern after the last line, each
\* kern max(gap_min, gap_try - depth of the line before it), and every line
\* box has the width of the widest line.
C23_AsStated ==
    /\ \A n \in Stacks :
          /\ StackShape(n)
          /\ \A i \in LinesOf(n) : n.contents[i].width = WidestLine(n)
    /\ (result.st = "none" /\ last.kind = "Stack" /\ Len(nodes[last.idx].lines) >= 1) =>
          /\ Len(last.out) = 1
          /\ Len(last.out[1].contents) = 2 * Len(nodes[last.idx].lines)

\* C23 (what the code does): the shape and the kerns are as stated; `widest`
\* starts at zero, so the lines other than the one at widest_idx get the width
\* max(0, the widest line's width), and the line at widest_idx keeps its own,
\* which is less when no line is wider than zero and the first is narrower.
C23_Stack ==
    /\ \A n \in Stacks :
          /\ StackShape(n)
          /\ n.obs.widest = Max2(0, WidestLine(n))
          /\ \A i \in LinesOf(n) :
                IF (i + 1) \div 2 = n.obs.widest_idx
                THEN n.contents[i].align = "Default"
                ELSE n.contents[i].width = n.obs.widest
          /\ (\A i \in LinesOf(n) : n.contents[i].width = n.obs.widest)
                \/ (n.obs.widest = 0 /\ n.obs.widest_idx = 1 /\ n.contents[1].width < 0)
    /\ (result.st = "none" /\ last.kind = "Stack" /\ Len(nodes[last.idx].lines) >= 1) =>
          /\ Len(last.out) = 1
          /\ Len(last.out[1].contents) = 2 * Len(nodes[last.idx].lines)

\* C23 witness: a stack of two lines whose first line is narrower than zero
\* and whose second is empty: the two line boxes differ in width
C23_Witness ==
    \E n \in Stacks :
        /\ Len(n.contents) = 4
        /\ n.contents[1].width < 0
        /\ n.contents[3].width = 0
        /\ WidestLine(n) = 0

\* a stack whose lines are of different widths and depths, the first deep
\* enough for gap_try to decide the kern after it
C23_Tall ==
    \E n \in Stacks :
        /\ Len(n.contents) = 4
        /\ n.contents[2].height > StackGapMin(SettingsOf(n))
        /\ n.contents[4].height = StackGapMin(SettingsOf(n))
        /\ n.contents[3].align = "Centered"
        /\ n.contents[3].width = n.contents[1].width

\* the nodes of the layout built so far that were centred on an axis: the
\* operators of largeop and the extended delimiters
Centred == Tagged("largeop") \cup Tagged("delimiter")

\* C24: the node that largeop makes of an operator in a style above Text, and
\* every extended delimiter that centered(axis) makes of a variant laid out
\* as a Glyph or a VerticalBox, reaches as far above the axis as below it
\* (height - axis = axis - depth) and is as tall in all as the variant was.
C24_Centred ==
    \A n \in Centred :
        /\ n.obs.kind \in {"Glyph", "VerticalBox"}
        /\ n.kind = "VerticalBox"
        /\ n.height - n.obs.axis = n.obs.axis - n.depth
        /\ n.height - n.depth = n.obs.height - n.obs.depth
        /\ n.offset = Half(n.obs.height + n.obs.depth) - n.obs.axis
        /\ n.tag = "largeop" =>
              /\ StyleGt(n.gstyle, "Text")
              /\ n.obs.axis = scaled_em(MathConstants.axis_height, SettingsOf(n))

\* C24 witness: a layout with an operator of display size and an extended
\* delimiter that is an assembly of parts, both moved by the centring
C24_Witness ==
    /\ \E n \in Tagged("largeop") : n.offset # 0 /\ n.obs.kind = "Glyph"
    /\ \E n \in Tagged("delimiter") :
          /\ n.obs.kind = "VerticalBox"
          /\ n.offset # 0
          /\ n.height # n.obs.height

\* a delimiter that is a single larger glyph, put in a box by the centring
C24_GlyphDelimiter ==
    \E n \in Tagged("delimiter") :
        /\ n.obs.kind = "Glyph"
        /\ n.contents[1].kind = "Glyph"
        /\ n.height # n.contents[1].height

\* Renderer::render has run
Rendered == scene.st = "done"

\* the number of Color nodes of a node sequence, nested ones included
RECURSIVE ColorNodes(_)
ColorNodes(ns) ==
    IF ns = <<>> THEN 0
    ELSE (IF Head(ns).kind = "Color" THEN 1 ELSE 0)
         + ColorNodes(Head(ns).contents) + ColorNodes(Tail(ns))

\* the number of calls of an operation among the first k calls
CallsOf(op, k) == Cardinality({i \in 1..k : scene.calls[i].op = op})

\* the colours begun and not yet ended after the first k calls
RECURSIVE Open(_)
Open(k) ==
    IF k = 0 THEN <<>>
    ELSE CASE scene.calls[k].op = "begin_color" -> Append(Open(k - 1), scene.calls[k].color)
           [] scene.calls[k].op = "end_color" ->
                  SubSeq(Open(k - 1), 1, Len(Open(k - 1)) - 1)
           [] OTHER -> Open(k - 1)

\* begin_color and end_color are nested and balanced in the calls made: as
\* many of each as there are Color nodes, never more ends than begins in a
\* prefix, and every symbol and rule drawn while exactly the colours of the
\* Color nodes around its node are open
CallsNested ==
    /\ CallsOf("begin_color", Len(scene.calls)) = ColorNodes(result.layout.contents)
    /\ CallsOf("end_color", Len(scene.calls)) = ColorNodes(result.layout.contents)
    /\ \A k \in 1..Len(scene.calls) : CallsOf("begin_color", k) >= CallsOf("end_color", k)
    /\ \A k \in 1..Len(scene.calls) :
          scene.calls[k].op \in {"symbol", "rule"} => scene.calls[k].anc = Open(k)

\* the SceneWrapper never pops an empty stack, draws every path with the
\* colour of the innermost Color node around it (black outside all), and is
\* left with the paint and the stack it started with
PaintRestored ==
    /\ ~scene.wrapper.panic
    /\ scene.wrapper.paint = "black" /\ scene.wrapper.color_stack = <<>>
    /\ \A i \in 1..Len(scene.wrapper.drawn) :
          LET d == scene.wrapper.drawn[i]
          IN  d.paint = IF d.call.anc = <<>> THEN "black" ELSE d.call.anc[Len(d.call.anc)]

\* a Color node stands directly in a VerticalBox of the tree rendered
ColorInVBox ==
    \E n \in NodesIn(result.layout.contents) :
        n.kind = "VerticalBox" /\ \E i \in 1..Len(n.contents) : n.contents[i].kind = "Color"

C25_UnlessInVBox ==
    Rendered =>
        /\ scene.panic = ColorInVBox
        /\ ~scene.panic => (CallsNested /\ PaintRestored)
        /\ ~scene.wrapper.panic
        /\ \A k \in 1..Len(scene.calls) : CallsOf("begin_color", k) >= CallsOf("end_color", k)

C25_NestedColours ==
    /\ Rendered /\ ~scene.panic
    /\ ColorNodes(result.layout.contents) = 2
    /\ \E i \in 1..Len(scene.wrapper.drawn) : Len(scene.wrapper.drawn[i].call.anc) = 2

\* the boxes of the layout returned, and of the layout built so far
BoxesOfKind(kind) ==
    {n \in NodesIn(layout.contents) : n.kind = kind}

\* C30: in every tree that layout produces no VerticalBox has a Color node as
\* a direct child, so Renderer::render of what layout returned never reaches
\* the panic of render_vbox.
C30_NoColorInVBox ==
    /\ \A n \in BoxesOfKind("VerticalBox") :
          \A i \in 1..Len(n.contents) : n.contents[i].kind # "Color"
    /\ result.st = "ok" => ~ColorInVBox
    /\ Rendered => ~scene.panic

\* C30 witness: a layout with Color nodes below a VerticalBox (in the boxes
\* of its children) has been rendered, both colours begun and ended
C30_Witness ==
    /\ Rendered
    /\ \E n \in BoxesOfKind("VerticalBox") :
          \E m \in NodesIn(n.contents) : m.kind = "Color"
    /\ CallsOf("begin_color", Len(scene.calls)) >= 2
    /\ CallsOf("end_color", Len(scene.calls)) >= 2

\* the style the i-th node of the input is laid out under when only the Style
\* nodes before it in the input itself count: that of the last of them, else
\* the style layout() was called with
StyleAt(i) ==
    LET before == {j \in 1..(i - 1) : j <= Len(nodes) /\ nodes[j].kind = "Style"}
    IN  IF before = {} THEN layout.gstyle
        ELSE nodes[CHOOSE j \in before : \A k \in before : k <= j].style

\* the step just taken was on a node that follows a container holding a
\* Style node
AfterStyled ==
    /\ result.st = "none"
    /\ last.idx >= 2
    /\ nodes[last.idx - 1] \in StyledNodes

\* C26: a Style node changes the style only for the siblings that follow it
\* in its own sequence: every node of the input is laid out under the style
\* set by the last Style node before it in the input (the initial style if
\* there is none), the style left for the next node is determined the same
\* way, and a node that follows a container holding a Style node is laid
\* out exactly as dispatch lays it out under that style
C26_StyleScope ==
    (last.idx >= 1 /\ result.st = "none") =>
        /\ last.style = StyleAt(last.idx)
        /\ config.style = StyleAt(last.idx + 1)
        /\ AfterStyled =>
              LET r == dispatch([config EXCEPT !.style = StyleAt(last.idx)],
                                nodes[last.idx], last.next)
              IN  r.ok /\ r.val = last.out

\* C26 witness: a symbol has been laid out after a container that holds a
\* Style node of another style than the one in force, which a Style node
\* earlier in the input had set
C26_Witness ==
    /\ AfterStyled
    /\ last.idx = 3
    /\ last.kind = "Symbol"
    /\ nodes[1].kind = "Style"
    /\ nodes[2] = Group(<<StyleNode("Script"), sym_a>>)
    /\ last.style = "TextCramped"
    /\ layout.gstyle = "Display"

\* the bodies of the arrays of the layout, the column VerticalBoxes of a body
\* in order, and the places of the cells among the children of a column
ArrayBodies == Tagged("arraybody")
ColumnsOf(b) == SelectSeq(b.contents, LAMBDA n : n.tag = "column")
CellsOf(col) == {i \in 1..Len(col.contents) : col.contents[i].tag = "cell"}
CellAt(col, r) ==
    CHOOSE i \in CellsOf(col) : Cardinality({j \in CellsOf(col) : j <= i}) = r

\* the baseline of the r-th cell of a column above the baseline of the column:
\* render_node draws a VerticalBox from `height` above its baseline, and
\* render_vbox draws a child box `height` below the running position
CellLine(col, r) == BottomOf(col, CellAt(col, r))

\* the kern that ends a column: max(depth of its last cell, row_sep)
LastKern(col) == col.contents[Len(col.contents)].height

\* C27 as stated: in the body of an array all column VerticalBoxes have the
\* same height, whatever the heights and depths of the cells, so the r-th
\* cells of all columns, the columns standing on one baseline, lie at the
\* same vertical position.
C27_AsStated ==
    \A b \in ArrayBodies :
        \A c, d \in DOMAIN ColumnsOf(b) :
            /\ ColumnsOf(b)[c].height = ColumnsOf(b)[d].height
            /\ \A r \in 1..Cardinality(CellsOf(ColumnsOf(b)[c])) :
                  CellLine(ColumnsOf(b)[c], r) = CellLine(ColumnsOf(b)[d], r)

\* what holds instead: every column has a cell for every row, measured from
\* the top of its column the r-th cell lies equally low in all columns, and
\* two columns differ in height by the difference of their closing kerns, so
\* they are equally high unless last-row cells differ in depth beyond row_sep
C27_FromTop ==
    \A b \in ArrayBodies :
        \A c, d \in DOMAIN ColumnsOf(b) :
            LET p == ColumnsOf(b)[c]
                q == ColumnsOf(b)[d]
            IN  /\ Cardinality(CellsOf(p)) = Cardinality(CellsOf(q))
                /\ \A r \in 1..Cardinality(CellsOf(p)) :
                      p.height - CellLine(p, r) = q.height - CellLine(q, r)
                /\ p.height - q.height = LastKern(p) - LastKern(q)
                /\ p.depth = 0

\* C27 witness: the body of an array of two rows has two columns whose last
\* cells differ in depth, one of them deeper than the closing kern of the other
C27_Witness ==
    \E b \in ArrayBodies :
        /\ Len(ColumnsOf(b)) = 2
        /\ Cardinality(CellsOf(ColumnsOf(b)[1])) = 2
        /\ LET p == ColumnsOf(b)[1]
               q == ColumnsOf(b)[2]
           IN  /\ p.contents[CellAt(p, 2)].depth # q.contents[CellAt(q, 2)].depth
               /\ -q.contents[CellAt(q, 2)].depth > LastKern(p)
               /\ p.height # q.height

\* a node sequence with every Color node of the sequence itself replaced by
\* the nodes it colours
RECURSIVE Uncoloured(_)
Uncoloured(ns) ==
    IF ns = <<>> THEN <<>>
    ELSE IF Head(ns).kind = "Color" THEN Uncoloured(Head(ns).inner) \o Uncoloured(Tail(ns))
    ELSE <<Head(ns)>> \o Uncoloured(Tail(ns))

\* the nodes of a layout with every Color node among them replaced by its
\* contents, as kinds and widths
RECURSIVE Spliced(_)
Spliced(ns) ==
    IF ns = <<>> THEN <<>>
    ELSE IF Head(ns).kind = "Color" THEN Spliced(Head(ns).contents) \o Spliced(Tail(ns))
    ELSE <<[kind |-> Head(ns).kind, width |-> Head(ns).width]>> \o Spliced(Tail(ns))

\* the input has Color nodes; the layout of the input without them under
\* the settings layout() was called with
Coloured == \E i \in DOMAIN nodes : nodes[i].kind = "Color"
PlainLayout == layout_(Uncoloured(nodes), [config EXCEPT !.style = layout.gstyle])

\* C28 as stated: colouring is transparent to spacing: the layout of
\* pre ++ [Color(xs)] ++ post has the same kerns and coercions, and so the
\* same nodes but for the Color boxes and the same total width, as the
\* layout of pre ++ xs ++ post.
C28_AsStated ==
    (result.st = "ok" /\ Coloured) =>
        /\ PlainLayout.ok
        /\ Spliced(layout.contents) = Spliced(PlainLayout.val.contents)
        /\ layout.width = PlainLayout.val.width

\* what holds instead: the two layouts agree when every Color node of the
\* input colours a single symbol, whose atom type is then that of the Color
\* node on both sides
OneSymbolEach ==
    \A i \in DOMAIN nodes :
        nodes[i].kind = "Color" =>
            Len(nodes[i].inner) = 1 /\ nodes[i].inner[1].kind = "Symbol"
C28_OneSymbol ==
    (result.st = "ok" /\ Coloured /\ OneSymbolEach) =>
        /\ PlainLayout.ok
        /\ Spliced(layout.contents) = Spliced(PlainLayout.val.contents)
        /\ layout.width = PlainLayout.val.width

\* C28 witness: a Color node that ends in a relation is followed by an
\* ordinary atom in a style that spaces the two, the input is laid out, and
\* the Color box is followed by the atom's glyph with no kern between
C28_Witness ==
    /\ result.st = "ok"
    /\ Len(nodes) = 2
    /\ nodes[1].kind = "Color"
    /\ Len(nodes[1].inner) = 2
    /\ atom_type(nodes[1].inner[2]) = "Relation"
    /\ atom_type(nodes[2]) = "Alpha"
    /\ atom_space("Relation", "Alpha", layout.gstyle) # "None"
    /\ Len(layout.contents) = 2
    /\ layout.contents[1].kind = "Color"
    /\ layout.contents[2].kind = "Glyph"
    /\ layout.width < PlainLayout.val.width

\* bound: the longest font-unit length the conversions are compared on
MaxFontLength == 24
FontLengths == 0..MaxFontLength

\* the extended delimiters that the step just taken built under the settings
\* of the input's own sequence: the sides of a Delimited node and of an Array
DelimitersIn ==
    IF result.st = "none" /\ last.kind \in {"Delimited", "Array"}
    THEN {n \in {last.out[i] : i \in DOMAIN last.out}
                 \cup UNION {{last.out[i].contents[j] : j \in DOMAIN last.out[i].contents} :
                             i \in DOMAIN last.out} :
             n.tag = "delimiter"}
    ELSE {}

\* the size in font units (counted in 1/FontFrac) of the variant that
\* vert_variant gave for a delimiter: its layout without the style's factor
VariantUnits(n) ==
    LET v == vert_variant(config.ctx, n.obs.cp, n.obs.clearance)
        m == VariantAsLayout(v.val, [config EXCEPT !.style = "Text"])
    IN  m.val.height - m.val.depth

\* the px length a to_font target was computed from: to_font is exact on it,
\* font_size being a multiple of units_per_em
TargetPx(t) == (t * config.font_size) \div (config.ctx.units_per_em * FontFrac)

\* C29 as stated: to_font inverts the conversion of font units to px in every
\* style, to_font(l.scaled(cfg)) = l, so a delimiter variant whose font-unit
\* size meets the target given to vert_variant is laid out at least as large
\* as the px length the target was computed from.
C29_AsStated ==
    /\ \A l \in FontLengths : to_font(scaled_font(l, config), config) = l * FontFrac
    /\ \A n \in DelimitersIn :
          VariantUnits(n) >= n.obs.clearance =>
              n.obs.height - n.obs.depth >= TargetPx(n.obs.clearance)

\* what holds instead: to_font leaves the style's scale factor in, so the
\* round trip multiplies by it, and is exact only in the styles of factor 1
C29_ScaleLeftIn ==
    \A l \in FontLengths :
        /\ to_font(scaled_font(l, config), config)
              = TimesPercent(l * FontFrac, scale_factor(config))
        /\ scale_factor(config) = 100 =>
              to_font(scaled_font(l, config), config) = l * FontFrac

\* C29 witness: in a style of factor below 1 a delimiter has been built from
\* a variant whose size in font units meets the target, and it is laid out
\* smaller than the px length the target was computed from
C29_Witness ==
    \E n \in DelimitersIn :
        /\ scale_factor(config) < 100
        /\ n.obs.clearance > 0
        /\ VariantUnits(n) >= n.obs.clearance
        /\ n.obs.height - n.obs.depth < TargetPx(n.obs.clearance)
        /\ to_font(scaled_font(MaxFontLength, config), config) < MaxFontLength * FontFrac

\* in the styles of factor 1 a delimiter variant that meets its target is
\* laid out at least as large as the px length the target came from
C29_FactorOne ==
    scale_factor(config) = 100 =>
        \A n \in DelimitersIn :
            VariantUnits(n) >= n.obs.clearance =>
                n.obs.height - n.obs.depth >= TargetPx(n.obs.clearance)

\* such a delimiter is reached
C29_MeetsTarget ==
    \E n \in DelimitersIn :
        /\ scale_factor(config) = 100
        /\ n.obs.clearance > 0
        /\ VariantUnits(n) >= n.obs.clearance

====
